---- MODULE Spec2Model ----
(***************************************************************************)
(* A model of the watermark detection and inpainting engine                *)
(* (AdvancedWatermarkProcessor).  Two revisions of the processor are in    *)
(* the repository: src/unnamed/part_000 (canvas kept in the processor,     *)
(* five detectors, post-processing) and src/lib/watermark-processor.ts     *)
(* (TensorFlow based, local canvas).  Definitions that model the second    *)
(* revision carry the suffix Tf.                                           *)
(*                                                                         *)
(* Numbers.  A confidence is a rational number n/d in hundredths, kept as  *)
(* the record [n |-> n, d |-> d].  A pixel buffer is a sequence of bytes,  *)
(* data[i + 1] being the JavaScript data[i].                               *)
(***************************************************************************)
EXTENDS Integers, Sequences, FiniteSets, TLC

VARIABLES
  pc,         \* position of the operation in progress
  k,          \* loop counter of the operation in progress
  regions,    \* the candidate list (watermarks of detectWatermarks)
  filtered,   \* consolidateRegions: the filtered (and sorted) candidates
  groups,     \* consolidateRegions: the clusters, as index lists into filtered
  merged,     \* consolidateRegions: one region per cluster, before the cap
  out,        \* the list the operation returned
  ret,        \* the value a function under test returned
  imageData,  \* the ImageData in work: [width, height, data]
  canvas,     \* the bitmap of the canvas: [width, height, data]
  revision,   \* processImage: the revision running, "canvas" or "tf"
  decoded,    \* processImage: the decoded image, as drawImage paints it
  result,     \* processImage: the ProcessingResult the promise resolved with
  thrown,     \* processImage: the pipeline stage that threw, "" if none did
  processor   \* the processor instance and the processImage calls made on it

\* The variables of processImage.
pipeline == <<revision, decoded, result, thrown, processor>>

vars == <<pc, k, regions, filtered, groups, merged, out, ret, imageData, canvas, pipeline>>

NoImage == [width |-> 0, height |-> 0, data |-> <<>>]

\* An optional field of a record is a sequence: <<>> when absent, <<v>> when
\* it holds v.
NoResult ==
  [success |-> FALSE, processedImageUrl |-> <<>>, originalImageUrl |-> <<>>,
   watermarksDetected |-> <<>>, error |-> <<>>]

\* A processor just constructed: canvas and ctx are null (0), and no call
\* has been made.
NoProcessor ==
  [canvas |-> 0, ctx |-> 0, task |-> 0, files |-> <<>>, canvases |-> <<>>, calls |-> <<>>]

\* processImage has not been called.
NoPipeline ==
  /\ revision = "canvas"
  /\ decoded = NoImage
  /\ result = NoResult
  /\ thrown = ""
  /\ processor = NoProcessor

----------------------------------------------------------------------------
(* Arithmetic helpers                                                      *)

Min2(a, b) == IF a < b THEN a ELSE b

Max2(a, b) == IF a > b THEN a ELSE b

Range(s) == {s[i] : i \in DOMAIN s}

RECURSIVE SeqSum(_)
SeqSum(s) == IF s = <<>> THEN 0 ELSE s[1] + SeqSum(Tail(s))

SetMin(S) == CHOOSE v \in S : \A u \in S : v <= u

SetMax(S) == CHOOSE v \in S : \A u \in S : v >= u

----------------------------------------------------------------------------
(* Regions                                                                 *)

RegionTypes == {"text", "logo", "pattern", "transparent"}

Conf(c) == [n |-> c, d |-> 1]

ConfGT(a, b) == a.n * b.d > b.n * a.d

ConfGE(a, b) == a.n * b.d >= b.n * a.d

Region(x, y, w, h, c, t) ==
  [x |-> x, y |-> y, width |-> w, height |-> h, confidence |-> c, type |-> t]

\* The acceptance threshold of consolidateRegions, 0.3, in hundredths.
ConfidenceThreshold == 30

\* The cap of consolidateRegions: merged.slice(0, 10).
MaxWatermarks == 10

regionsOverlap_dropY(a, b) ==
  ~(a.x + a.width < b.x \/ b.x + b.width < a.x \/ a.y + a.height < b.y)

regionsOverlap(a, b) ==
  ~(   a.x + a.width < b.x
    \/ b.x + b.width < a.x
    \/ a.y + a.height < b.y
    \/ b.y + b.height < a.y)

regionsOverlapTf(r1, r2) ==
  ~(   r1.x + r1.width < r2.x
    \/ r2.x + r2.width < r1.x
    \/ r1.y + r1.height < r2.y
    \/ r2.y + r2.height < r1.y)

\* Array.prototype.filter with r => r.confidence > 0.3
FilterByConfidence(rs) ==
  SelectSeq(rs, LAMBDA r : ConfGT(r.confidence, Conf(ConfidenceThreshold)))

\* Array.prototype.sort is stable: with the comparator b.confidence -
\* a.confidence an element is placed behind every element whose confidence
\* is not smaller.
RECURSIVE InsertByConfidence(_, _)
InsertByConfidence(s, r) ==
  IF s = <<>> THEN <<r>>
  ELSE IF ConfGE(s[1].confidence, r.confidence)
       THEN <<s[1]>> \o InsertByConfidence(Tail(s), r)
       ELSE <<r>> \o s

RECURSIVE SortByConfidence(_)
SortByConfidence(s) ==
  IF s = <<>> THEN <<>>
  ELSE InsertByConfidence(SortByConfidence(SubSeq(s, 1, Len(s) - 1)), s[Len(s)])

\* types.sort((a, b) => count(a) - count(b)): a stable ascending sort by
\* frequency.
RECURSIVE InsertByCount(_, _, _)
InsertByCount(s, t, all) ==
  LET count(v) == Cardinality({i \in DOMAIN all : all[i] = v})
  IN IF s = <<>> THEN <<t>>
     ELSE IF count(s[1]) <= count(t)
          THEN <<s[1]>> \o InsertByCount(Tail(s), t, all)
          ELSE <<t>> \o s

RECURSIVE SortByCount(_, _)
SortByCount(s, all) ==
  IF s = <<>> THEN <<>>
  ELSE InsertByCount(SortByCount(SubSeq(s, 1, Len(s) - 1), all), s[Len(s)], all)

mergeRegions_maxOfOrigins(rs) ==
  LET minX == SetMin({rs[i].x : i \in DOMAIN rs})
      minY == SetMin({rs[i].y : i \in DOMAIN rs})
      maxX == SetMax({rs[i].x : i \in DOMAIN rs})
      maxY == SetMax({rs[i].y : i \in DOMAIN rs})
      types == [i \in DOMAIN rs |-> rs[i].type]
      sorted == SortByCount(types, types)
  IN [x |-> minX, y |-> minY, width |-> maxX - minX, height |-> maxY - minY,
      confidence |-> [n |-> SeqSum([i \in DOMAIN rs |-> rs[i].confidence.n]),
                      d |-> Len(rs)],
      type |-> sorted[Len(sorted)]]

\* mergeRegions is called on clusters of detector candidates, whose
\* confidences have denominator 1.
mergeRegions(rs) ==
  LET minX == SetMin({rs[i].x : i \in DOMAIN rs})
      minY == SetMin({rs[i].y : i \in DOMAIN rs})
      maxX == SetMax({rs[i].x + rs[i].width : i \in DOMAIN rs})
      maxY == SetMax({rs[i].y + rs[i].height : i \in DOMAIN rs})
      types == [i \in DOMAIN rs |-> rs[i].type]
      sorted == SortByCount(types, types)
  IN [x |-> minX, y |-> minY, width |-> maxX - minX, height |-> maxY - minY,
      confidence |-> [n |-> SeqSum([i \in DOMAIN rs |-> rs[i].confidence.n]),
                      d |-> Len(rs)],
      type |-> sorted[Len(sorted)]]

\* The inner loop of consolidateRegions: the later unused candidates that
\* overlap the seed (current is the seed throughout the loop).
GroupOf(fs, i, used) ==
  <<i>> \o SelectSeq([j \in 1..Len(fs) |-> j],
                     LAMBDA j : j > i /\ j \notin used
                                /\ regionsOverlap(fs[i], fs[j]))

\* The outer loop without the set used: every candidate becomes a seed,
\* also one that an earlier seed has absorbed.
RECURSIVE Clusters_everySeed(_, _, _)
Clusters_everySeed(fs, i, used) ==
  IF i > Len(fs) THEN <<>>
  ELSE <<GroupOf(fs, i, {})>> \o Clusters_everySeed(fs, i + 1, {})

\* The outer loop of consolidateRegions, from index i with the set used.
RECURSIVE Clusters(_, _, _)
Clusters(fs, i, used) ==
  IF i > Len(fs) THEN <<>>
  ELSE IF i \in used THEN Clusters(fs, i + 1, used)
       ELSE LET g == GroupOf(fs, i, used)
            IN <<g>> \o Clusters(fs, i + 1, used \cup Range(g))

MergedOf(fs, gs) ==
  [c \in DOMAIN gs |->
     IF Len(gs[c]) > 1
     THEN mergeRegions([m \in DOMAIN gs[c] |-> fs[gs[c][m]]])
     ELSE fs[gs[c][1]]]

Slice_noCap(s, n) == s

\* Array.prototype.slice(0, n)
Slice(s, n) == SubSeq(s, 1, Min2(Len(s), n))

consolidateFiltered(rs) ==
  IF Len(rs) = 0 THEN <<>> ELSE SortByConfidence(FilterByConfidence(rs))

consolidateRegions(rs) ==
  IF Len(rs) = 0 THEN <<>>
  ELSE LET fs == consolidateFiltered(rs)
       IN Slice(MergedOf(fs, Clusters(fs, 1, {})), MaxWatermarks)

----------------------------------------------------------------------------
(* mergeAndFilterRegions of src/lib/watermark-processor.ts                 *)

\* The merge distance of regionsNearby: distance < 50.
NearbyDistance == 50

\* Math.sqrt(dx^2 + dy^2) < 50 on integer origins is dx^2 + dy^2 < 50^2.
regionsNearby(r1, r2) ==
  /\ (r1.x - r2.x) * (r1.x - r2.x) + (r1.y - r2.y) * (r1.y - r2.y)
       < NearbyDistance * NearbyDistance
  /\ r1.type = r2.type

mergeMultipleRegions(rs) ==
  LET minX == SetMin({rs[i].x : i \in DOMAIN rs})
      minY == SetMin({rs[i].y : i \in DOMAIN rs})
      maxX == SetMax({rs[i].x + rs[i].width : i \in DOMAIN rs})
      maxY == SetMax({rs[i].y + rs[i].height : i \in DOMAIN rs})
  IN [x |-> minX, y |-> minY, width |-> maxX - minX, height |-> maxY - minY,
      confidence |-> [n |-> SeqSum([i \in DOMAIN rs |-> rs[i].confidence.n]),
                      d |-> Len(rs)],
      type |-> rs[1].type]

GroupOfTf(fs, i, used) ==
  <<i>> \o SelectSeq([j \in 1..Len(fs) |-> j],
                     LAMBDA j : j > i /\ j \notin used
                                /\ (\/ regionsOverlapTf(fs[i], fs[j])
                                    \/ regionsNearby(fs[i], fs[j])))

RECURSIVE ClustersTf(_, _, _)
ClustersTf(fs, i, used) ==
  IF i > Len(fs) THEN <<>>
  ELSE IF i \in used THEN ClustersTf(fs, i + 1, used)
       ELSE LET g == GroupOfTf(fs, i, used)
            IN <<g>> \o ClustersTf(fs, i + 1, used \cup Range(g))

MergedOfTf(fs, gs) ==
  [c \in DOMAIN gs |->
     IF Len(gs[c]) > 1
     THEN mergeMultipleRegions([m \in DOMAIN gs[c] |-> fs[gs[c][m]]])
     ELSE fs[gs[c][1]]]

mergeAndFilterRegions(rs) ==
  IF Len(rs) = 0 THEN <<>>
  ELSE LET fs == FilterByConfidence(rs)
       IN SortByConfidence(MergedOfTf(fs, ClustersTf(fs, 1, {})))

----------------------------------------------------------------------------
(* The candidates a detector scan can push, in scan order.  Window s of    *)
(* the scan belongs to one of the five detectors (by s % 5) and has that   *)
(* detector's block size, a position on that detector's stride grid and a  *)
(* confidence that detector can report.                                    *)

NumWindows == 14

\* Windows sit 72 pixels apart in MaxWatermarks + 2 columns; the windows
\* behind the last column are those of another detector over the first
\* columns.
WindowColumn(s) == (s - 1) % (MaxWatermarks + 2)

BlockSizeOf(s) ==
  CASE s % 5 = 1 -> 64      \* detectByFrequencyAnalysis
    [] s % 5 = 2 -> 32      \* detectTextByContrast
    [] s % 5 = 3 -> 48      \* detectRepeatingPatterns
    [] s % 5 = 4 -> 40      \* detectTransparentOverlays
    [] OTHER     -> 50      \* detectByEdgeAnalysis

StrideOf(s) ==
  CASE s % 5 = 1 -> 32
    [] s % 5 = 2 -> 16
    [] s % 5 = 3 -> 24
    [] s % 5 = 4 -> 20
    [] OTHER     -> 25

TypeOf(s) ==
  CASE s % 5 = 1 -> "pattern"
    [] s % 5 = 2 -> "text"
    [] s % 5 = 3 -> "pattern"
    [] s % 5 = 4 -> "transparent"
    [] OTHER     -> "logo"

\* frequency score > 0.4; text score in (0.5, 0.8); group size / 10 from a
\* group of 3 or more; transparency 0.8; edge score > 0.3.
ConfidenceOf(s) ==
  CASE s % 5 = 1 -> 41 + (s % 4) * 10
    [] s % 5 = 2 -> 51 + (s % 3) * 9
    [] s % 5 = 3 -> Min2(10 * (3 + s \div 5), 100)
    [] s % 5 = 4 -> 80
    [] OTHER     -> 31 + (s % 7) * 10

Window(s) ==
  Region(StrideOf(s) * ((72 * WindowColumn(s)) \div StrideOf(s)),
         StrideOf(s) * (s % 3),
         BlockSizeOf(s), BlockSizeOf(s),
         Conf(ConfidenceOf(s)), TypeOf(s))

----------------------------------------------------------------------------
(* SpecConsolidate: a scan pushes candidates, consolidateRegions runs on   *)
(* the list.                                                               *)

\* The candidates of a finished scan of a wide image: MaxWatermarks + 1
\* windows of detectTransparentOverlays 100 pixels apart, and one window of
\* detectByEdgeAnalysis that lies over the first of them.
CrowdedScan ==
  [i \in 1..(MaxWatermarks + 2) |->
     IF i <= MaxWatermarks + 1
     THEN Region(100 * (i - 1), 0, 40, 40, Conf(80), "transparent")
     ELSE Region(25, 25, 50, 50, Conf(31), "logo")]

\* The candidates of a finished scan that found two neighbouring windows
\* of detectTextByContrast (block 32, stride 16) three strides apart: they
\* do not overlap and their origins are 48 pixels apart.
NearbyScan ==
  <<Region(0, 0, 32, 32, Conf(60), "text"), Region(48, 0, 32, 32, Conf(55), "text")>>

\* Either a scan is about to start, or it has ended with CrowdedScan or
\* NearbyScan.
InitConsolidate ==
  /\ pc = "scan"
  /\ \/ k = 1 /\ regions = <<>>
     \/ k = NumWindows + 1 /\ regions \in {CrowdedScan, NearbyScan}
  /\ filtered = <<>>
  /\ groups = <<>>
  /\ merged = <<>>
  /\ out = <<>>
  /\ ret = 0
  /\ imageData = NoImage
  /\ canvas = NoImage
  /\ NoPipeline

\* One window of a detector loop: the score passes the detector's own
\* threshold and the window is pushed, or it does not.
ScanPush ==
  /\ pc = "scan"
  /\ k <= NumWindows
  /\ regions' = Append(regions, Window(k))
  /\ k' = k + 1
  /\ UNCHANGED <<pc, filtered, groups, merged, out, ret, imageData, canvas, pipeline>>

ScanSkip ==
  /\ pc = "scan"
  /\ k <= NumWindows
  /\ k' = k + 1
  /\ UNCHANGED <<pc, regions, filtered, groups, merged, out, ret, imageData, canvas, pipeline>>

Consolidate ==
  /\ pc = "scan"
  /\ k > NumWindows
  /\ pc' = "consolidated"
  /\ filtered' = consolidateFiltered(regions)
  /\ groups' = Clusters(filtered', 1, {})
  /\ merged' = MergedOf(filtered', groups')
  /\ out' = consolidateRegions(regions)
  /\ UNCHANGED <<k, regions, ret, imageData, canvas, pipeline>>

MergeAndFilter ==
  /\ pc = "scan"
  /\ k > NumWindows
  /\ pc' = "mergedTf"
  /\ filtered' = (IF Len(regions) = 0 THEN <<>> ELSE FilterByConfidence(regions))
  /\ groups' = ClustersTf(filtered', 1, {})
  /\ merged' = MergedOfTf(filtered', groups')
  /\ out' = mergeAndFilterRegions(regions)
  /\ UNCHANGED <<k, regions, ret, imageData, canvas, pipeline>>

NextConsolidate == ScanPush \/ ScanSkip \/ Consolidate \/ MergeAndFilter

SpecConsolidate == InitConsolidate /\ [][NextConsolidate]_vars

\* C1: consolidateRegions returns at most 10 regions (the cap) and never
\* more regions than it was given.
C1_CountBounded ==
  pc = "consolidated" =>
    /\ Len(out) <= MaxWatermarks
    /\ Len(out) <= Len(regions)

\* C1 witness: more than 10 clusters were formed and the cap cut the list.
C1_Witness ==
  /\ pc = "consolidated"
  /\ Len(merged) > MaxWatermarks
  /\ Len(out) = MaxWatermarks

RegionContains(big, m) ==
  /\ big.x <= m.x
  /\ big.y <= m.y
  /\ big.x + big.width >= m.x + m.width
  /\ big.y + big.height >= m.y + m.height

\* C2: the bounding box of every region produced by merging a cluster
\* contains the bounding box of every member of the cluster.
C2_MergedContainsMembers ==
  pc \in {"consolidated", "mergedTf"} =>
    \A c \in DOMAIN groups :
      \A m \in DOMAIN groups[c] :
        RegionContains(merged[c], filtered[groups[c][m]])

\* C2 witness: a cluster of three members with different origins and sizes
\* was merged.
C2_Witness ==
  /\ pc = "consolidated"
  /\ \E c \in DOMAIN groups :
       /\ Len(groups[c]) >= 3
       /\ \E m \in DOMAIN groups[c] :
            /\ filtered[groups[c][m]].x > merged[c].x
            /\ filtered[groups[c][m]].y > merged[c].y
       /\ \E m \in DOMAIN groups[c] :
            filtered[groups[c][m]].width < merged[c].width

----------------------------------------------------------------------------
(* SpecOverlap: regionsOverlap applied to a pair of rectangles.            *)

CoordMax == 1

Rectangles ==
  {Region(x, y, w, h, Conf(50), "text") :
     x \in -1..CoordMax, y \in -1..CoordMax, w \in 0..CoordMax, h \in 0..CoordMax}

InitOverlap ==
  /\ pc = "overlap"
  /\ k = 0
  /\ regions \in {<<a, b>> : a \in Rectangles, b \in Rectangles}
  /\ filtered = <<>>
  /\ groups = <<>>
  /\ merged = <<>>
  /\ out = <<>>
  /\ ret = 0
  /\ imageData = NoImage
  /\ canvas = NoImage
  /\ NoPipeline

CallRegionsOverlap ==
  /\ pc = "overlap"
  /\ pc' = "returned"
  /\ ret' = [ab |-> regionsOverlap(regions[1], regions[2]),
             ba |-> regionsOverlap(regions[2], regions[1]),
             abTf |-> regionsOverlapTf(regions[1], regions[2]),
             baTf |-> regionsOverlapTf(regions[2], regions[1])]
  /\ UNCHANGED <<k, regions, filtered, groups, merged, out, imageData, canvas, pipeline>>

NextOverlap == CallRegionsOverlap

SpecOverlap == InitOverlap /\ [][NextOverlap]_vars

\* C3: regionsOverlap is symmetric: regionsOverlap(a, b) = regionsOverlap(b, a)
\* for all regions a and b.
C3_OverlapSymmetric ==
  pc = "returned" => (ret.ab = ret.ba /\ ret.abTf = ret.baTf)

\* C3 witness: two different rectangles, the second one above the first and
\* apart from it, were compared and found not to overlap in both orders.
C3_Witness ==
  /\ pc = "returned"
  /\ regions[1] # regions[2]
  /\ regions[2].y + regions[2].height < regions[1].y
  /\ ~ret.ab
  /\ ~ret.ba

----------------------------------------------------------------------------
(* Pixel buffers.  data[i] of the source is data[i + 1] here; a read       *)
(* outside the array yields undefined, and arithmetic on it NaN.           *)

Idx(width, x, y) == (y * width + x) * 4

\* new Uint8ClampedArray(bytes): the array holding the given bytes.
Uint8ClampedArray(bytes) == bytes \o <<>>

Defined(data, i) == i >= 0 /\ i < Len(data)

\* s[lo] + ... + s[hi]
RECURSIVE SumRange(_, _, _)
SumRange(s, lo, hi) ==
  IF lo > hi THEN 0
  ELSE IF lo = hi THEN s[lo]
  ELSE SumRange(s, lo, (lo + hi) \div 2) + SumRange(s, (lo + hi) \div 2 + 1, hi)

SumFrom(s, i) == SumRange(s, i, Len(s))

\* A loop over the pixels ps[lo], ..., ps[hi] in order, each step working on
\* the buffer the step before left: Step(data, x, y) is the loop body.  The
\* buffer has a fixed length, which no step changes.
RECURSIVE ForEachPixel(_, _, _, _, _)
ForEachPixel(Step(_, _, _), data, ps, lo, hi) ==
  IF lo > hi THEN data
  ELSE IF lo = hi THEN Step(data, ps[lo][1], ps[lo][2])
  ELSE LET firstHalf == ForEachPixel(Step, data, ps, lo, (lo + hi) \div 2)
       IN IF Len(firstHalf) = Len(data)
          THEN ForEachPixel(Step, firstHalf, ps, (lo + hi) \div 2 + 1, hi)
          ELSE firstHalf

\* Math.round(n / d) for d > 0: floor(n / d + 1/2).  (At an exact half the
\* double arithmetic of the source can land just below it; the quotient
\* here is the exact one.)
MathRound(n, d) == (2 * n + d) \div (2 * d)

\* A store of the number n / d (d > 0) into a Uint8ClampedArray: clamped to
\* [0, 255] and rounded to the nearest integer, halves to even.
ToUint8Clamped(n, d) ==
  IF n <= 0 THEN 0
  ELSE IF n >= 255 * d THEN 255
  ELSE LET q == n \div d
           r == n % d
       IN IF 2 * r < d THEN q
          ELSE IF 2 * r > d THEN q + 1
          ELSE IF q % 2 = 0 THEN q ELSE q + 1

SetRGBA(data, idx, r, g, b) ==
  [data EXCEPT ![idx + 1] = r, ![idx + 2] = g, ![idx + 3] = b, ![idx + 4] = 0]

\* data[idx] = r; data[idx + 1] = g; data[idx + 2] = b
SetRGB(data, idx, r, g, b) ==
  [data EXCEPT ![idx + 1] = r, ![idx + 2] = g, ![idx + 3] = b]

\* The pixels a region loop visits, in loop order:
\* for (y = region.y; y < region.y + region.height && y < height; y += step)
\*   for (x = region.x; x < region.x + region.width && x < width; x += step)
LoopValues(from, to, step) ==
  IF to <= from THEN <<>>
  ELSE [i \in 1..((to - from + step - 1) \div step) |-> from + (i - 1) * step]

RegionPixels(region, width, height, step) ==
  LET ys == LoopValues(region.y, Min2(region.y + region.height, height), step)
      xs == LoopValues(region.x, Min2(region.x + region.width, width), step)
  IN [i \in 1..(Len(ys) * Len(xs)) |->
        <<xs[((i - 1) % Len(xs)) + 1], ys[((i - 1) \div Len(xs)) + 1]>>]

InRegion(x, y, region) ==
  /\ x >= region.x
  /\ x < region.x + region.width
  /\ y >= region.y
  /\ y < region.y + region.height

\* averageColors on a sequence of [r, g, b] records.
averageColors(colors) ==
  [r |-> MathRound(SumFrom([i \in DOMAIN colors |-> colors[i].r], 1), Len(colors)),
   g |-> MathRound(SumFrom([i \in DOMAIN colors |-> colors[i].g], 1), Len(colors)),
   b |-> MathRound(SumFrom([i \in DOMAIN colors |-> colors[i].b], 1), Len(colors))]

ColorAt(data, idx) == [r |-> data[idx + 1], g |-> data[idx + 2], b |-> data[idx + 3]]

----------------------------------------------------------------------------
(* removeTransparentWatermark                                              *)

\* getNeighborPixels(...).length > 0
HasNeighborPixels(width, height, x, y, radius) ==
  \E dy \in -radius..radius, dx \in -radius..radius :
    /\ ~(dx = 0 /\ dy = 0)
    /\ x + dx >= 0 /\ x + dx < width /\ y + dy >= 0 /\ y + dy < height

\* The estimated watermark opacity, alpha = 0.3, in tenths.
WatermarkOpacity == 3

\* One channel of estimateOriginalColor:
\* min(255, max(0, (c - alpha * 255) / (1 - alpha))), as the pair of the
\* numerator and the denominator of (10 c - 255 * 3) / (10 - 3).
EstimateNum(c) == 10 * c - 255 * WatermarkOpacity

EstimateDen == 10 - WatermarkOpacity

\* estimateOriginalColor computed from avg, the colour of the neighbourhood
\* (here of the pixel that follows in the array), where the buffer has one.
estimateOriginalColor_ofAverage(data, idx) ==
  LET at == IF idx + 7 <= Len(data) THEN idx + 4 ELSE idx
  IN [r |-> ToUint8Clamped(EstimateNum(data[at + 1]), EstimateDen),
      g |-> ToUint8Clamped(EstimateNum(data[at + 2]), EstimateDen),
      b |-> ToUint8Clamped(EstimateNum(data[at + 3]), EstimateDen)]

\* avg = averageColors(neighbors) is computed and never used.
estimateOriginalColor(data, idx) ==
  [r |-> ToUint8Clamped(EstimateNum(data[idx + 1]), EstimateDen),
   g |-> ToUint8Clamped(EstimateNum(data[idx + 2]), EstimateDen),
   b |-> ToUint8Clamped(EstimateNum(data[idx + 3]), EstimateDen)]

\* The loop body of removeTransparentWatermark at pixel (x, y).
removeTransparentAt(data, width, height, x, y) ==
  IF HasNeighborPixels(width, height, x, y, 3)
  THEN LET e == estimateOriginalColor(data, Idx(width, x, y))
       IN SetRGB(data, Idx(width, x, y), e.r, e.g, e.b)
  ELSE data

removeTransparentWatermark(data, width, height, region) ==
  LET ps == RegionPixels(region, width, height, 1)
  IN ForEachPixel(LAMBDA d, x, y : removeTransparentAt(d, width, height, x, y),
                  data, ps, 1, Len(ps))

----------------------------------------------------------------------------
(* removePatternWatermark: fourierInpaint, bilinearInterpolate             *)

Cardinals(radius) ==
  << <<-radius, 0>>, <<radius, 0>>, <<0, -radius>>, <<0, radius>> >>

\* The control points of bilinearInterpolate that lie inside the buffer.
CardinalPoints(width, height, x, y, radius) ==
  SelectSeq([i \in 1..4 |-> <<x + Cardinals(radius)[i][1], y + Cardinals(radius)[i][2]>>],
            LAMBDA p : p[1] >= 0 /\ p[1] < width /\ p[2] >= 0 /\ p[2] < height)

\* null is [found |-> FALSE].
bilinearInterpolate(data, width, height, x, y, radius) ==
  LET points == CardinalPoints(width, height, x, y, radius)
  IN IF Len(points) < 2 THEN [found |-> FALSE]
     ELSE [found |-> TRUE,
           color |-> averageColors([i \in DOMAIN points |->
                        ColorAt(data, Idx(width, points[i][1], points[i][2]))])]

\* The loop body of fourierInpaint at pixel (x, y).
fourierInpaintAt(data, width, height, x, y) ==
  LET interpolated == bilinearInterpolate(data, width, height, x, y, 5)
  IN IF interpolated.found
     THEN SetRGB(data, Idx(width, x, y), interpolated.color.r,
                 interpolated.color.g, interpolated.color.b)
     ELSE data

fourierInpaint(data, width, height, region) ==
  LET ps == RegionPixels(region, width, height, 1)
  IN ForEachPixel(LAMBDA d, x, y : fourierInpaintAt(d, width, height, x, y),
                  data, ps, 1, Len(ps))

removePatternWatermark(data, width, height, region) ==
  fourierInpaint(data, width, height, region)

----------------------------------------------------------------------------
(* removeTextWatermark: contentAwareInpaint, findBestPatch                 *)

\* A patch search over every source of the buffer, whatever its distance
\* from the target.
SearchSources_wholeImage(width, height, x, y, halfPatch, searchRadius, excludeRegion) ==
  LET sys == LoopValues(halfPatch, height - halfPatch, 1)
      sxs == LoopValues(halfPatch, width - halfPatch, 1)
      all == [i \in 1..(Len(sys) * Len(sxs)) |->
                <<sxs[((i - 1) % Len(sxs)) + 1], sys[((i - 1) \div Len(sxs)) + 1]>>]
  IN SelectSeq(all, LAMBDA s : ~InRegion(s[1], s[2], excludeRegion))

\* The sources a patch search visits, in loop order:
\* for (sy = max(halfPatch, y - radius); sy < min(height - halfPatch, y + radius); sy++)
\*   for (sx = max(halfPatch, x - radius); sx < min(width - halfPatch, x + radius); sx++)
\* without those inside the region to repair.
SearchSources(width, height, x, y, halfPatch, searchRadius, excludeRegion) ==
  LET sys == LoopValues(Max2(halfPatch, y - searchRadius),
                        Min2(height - halfPatch, y + searchRadius), 1)
      sxs == LoopValues(Max2(halfPatch, x - searchRadius),
                        Min2(width - halfPatch, x + searchRadius), 1)
      all == [i \in 1..(Len(sys) * Len(sxs)) |->
                <<sxs[((i - 1) % Len(sxs)) + 1], sys[((i - 1) \div Len(sxs)) + 1]>>]
  IN SelectSeq(all, LAMBDA s : ~InRegion(s[1], s[2], excludeRegion))

\* The offsets (dx, dy) of a patch, in loop order (dy outer).
PatchOffsets(halfPatch) ==
  [i \in 1..((2 * halfPatch + 1) * (2 * halfPatch + 1)) |->
     <<((i - 1) % (2 * halfPatch + 1)) - halfPatch,
       ((i - 1) \div (2 * halfPatch + 1)) - halfPatch>>]

SquaredDiff(data, i1, i2) ==
  LET dr == data[i1 + 1] - data[i2 + 1]
      dg == data[i1 + 2] - data[i2 + 2]
      db == data[i1 + 3] - data[i2 + 3]
  IN dr * dr + dg * dg + db * db

\* The patch offsets of findBestPatch whose target pixel is outside the
\* region (the others are skipped).
ValidOffsets(tx0, ty0, halfPatch, excludeRegion) ==
  SelectSeq(PatchOffsets(halfPatch),
            LAMBDA o : ~InRegion(tx0 + o[1], ty0 + o[2], excludeRegion))

\* The score of one source of findBestPatch: the sum of the squared
\* differences over the offsets offs, and their number.  nan: a target read outside the array made the
\* sum NaN.
PatchScore(data, width, tx0, ty0, sx, sy, offs) ==
  LET tidx(o) == Idx(width, tx0 + o[1], ty0 + o[2])
      sidx(o) == Idx(width, sx + o[1], sy + o[2])
      isNaN == \E i \in DOMAIN offs :
                 ~Defined(data, tidx(offs[i])) \/ ~Defined(data, sidx(offs[i]))
  IN [validPixels |-> Len(offs),
      nan |-> isNaN,
      sum |-> IF isNaN THEN 0
              ELSE SumFrom([i \in DOMAIN offs |->
                              SquaredDiff(data, tidx(offs[i]), sidx(offs[i]))], 1)]

\* The loop of findBestPatch over the sources lo..hi: best is the
\* match so far, score < bestScore is sum/validPixels < best.sum/best.n,
\* false for a NaN score.
RECURSIVE findBestPatchFrom(_, _, _, _, _, _, _, _, _)
findBestPatchFrom(data, width, tx0, ty0, offs, srcs, lo, hi, best) ==
  IF lo > hi THEN best
  ELSE IF lo = hi
  THEN LET s == PatchScore(data, width, tx0, ty0, srcs[lo][1], srcs[lo][2], offs)
           better == /\ s.validPixels > 0
                     /\ ~s.nan
                     /\ (~best.found \/ s.sum * best.n < best.sum * s.validPixels)
       IN IF better
          THEN [found |-> TRUE, x |-> srcs[lo][1], y |-> srcs[lo][2],
                sum |-> s.sum, n |-> s.validPixels]
          ELSE best
  ELSE LET firstHalf == findBestPatchFrom(data, width, tx0, ty0, offs, srcs,
                                          lo, (lo + hi) \div 2, best)
       IN IF firstHalf.n > 0
          THEN findBestPatchFrom(data, width, tx0, ty0, offs, srcs,
                                 (lo + hi) \div 2 + 1, hi, firstHalf)
          ELSE firstHalf

\* null is [found |-> FALSE].
findBestPatch(data, width, height, targetX, targetY, patchSize, searchRadius, excludeRegion) ==
  LET srcs == SearchSources(width, height, targetX, targetY, patchSize \div 2,
                            searchRadius, excludeRegion)
      offs == ValidOffsets(targetX, targetY, patchSize \div 2, excludeRegion)
  IN findBestPatchFrom(data, width, targetX, targetY, offs, srcs, 1, Len(srcs),
                       [found |-> FALSE, x |-> 0, y |-> 0, sum |-> 0, n |-> 1])

\* The loop body of contentAwareInpaint at pixel (x, y).
contentAwareInpaintAt(data, width, height, region, x, y) ==
  LET bestPatch == findBestPatch(data, width, height, x, y, 7, 30, region)
  IN IF bestPatch.found
     THEN LET c == ColorAt(data, Idx(width, bestPatch.x, bestPatch.y))
          IN SetRGB(data, Idx(width, x, y), c.r, c.g, c.b)
     ELSE data

contentAwareInpaint(data, width, height, region) ==
  LET ps == RegionPixels(region, width, height, 1)
  IN ForEachPixel(LAMBDA d, x, y : contentAwareInpaintAt(d, width, height, region, x, y),
                  data, ps, 1, Len(ps))

ExpandedRegion(width, height, region) ==
  [x |-> Max2(0, region.x - 5),
   y |-> Max2(0, region.y - 5),
   width |-> Min2(width - region.x, region.width + 10),
   height |-> Min2(height - region.y, region.height + 10)]

removeTextWatermark(data, width, height, region) ==
  contentAwareInpaint(data, width, height, ExpandedRegion(width, height, region))

----------------------------------------------------------------------------
(* removeLogoWatermark: patchBasedInpaint, findSimilarPatches              *)

\* floor(sqrt(n)) by bisection: the largest r in lo..hi with r * r <= n.
RECURSIVE ISqrtBetween(_, _, _)
ISqrtBetween(n, lo, hi) ==
  IF lo >= hi THEN lo
  ELSE LET mid == (lo + hi + 1) \div 2
       IN IF mid * mid <= n THEN ISqrtBetween(n, mid, hi)
          ELSE ISqrtBetween(n, lo, mid - 1)

\* Math.sqrt(v) in tenths, rounded down (v <= 3 * 255^2).
SqrtTenths(v) == ISqrtBetween(100 * v, 0, 4420)

\* The normaliser of computePatchSimilarity: 441 = sqrt(255^2 * 3).
MaxColorDistance == 441

\* A similarity is the number n / SimDen(patchSize); NaN when a read of the
\* target or source patch fell outside the array.  With sum the sum of the
\* colour distances in tenths and count the patch area,
\* max(0, 1 - sum / count / 441) = max(0, 4410 count - sum) / (4410 count).
SimDen(patchSize) == 10 * MaxColorDistance * patchSize * patchSize

computePatchSimilarity(data, width, x1, y1, x2, y2, patchSize) ==
  LET offs == PatchOffsets(patchSize \div 2)
      idx1(o) == Idx(width, x1 + o[1], y1 + o[2])
      idx2(o) == Idx(width, x2 + o[1], y2 + o[2])
      isNaN == \E i \in DOMAIN offs :
                 ~Defined(data, idx1(offs[i])) \/ ~Defined(data, idx2(offs[i]))
      sum == SumFrom([i \in DOMAIN offs |->
                        SqrtTenths(SquaredDiff(data, idx1(offs[i]), idx2(offs[i])))], 1)
  IN IF isNaN THEN [nan |-> TRUE, n |-> 0]
     ELSE [nan |-> FALSE, n |-> Max2(0, SimDen(patchSize) - sum)]

\* The pixel coordinates computePatchSimilarity reads: for each offset the
\* pixel of the first patch (idx1) and the pixel of the second (idx2).
PatchReads(x1, y1, x2, y2, patchSize) ==
  LET offs == PatchOffsets(patchSize \div 2)
  IN {<<x1 + offs[i][1], y1 + offs[i][2]>> : i \in DOMAIN offs}
       \cup {<<x2 + offs[i][1], y2 + offs[i][2]>> : i \in DOMAIN offs}

\* similarity > 0.7 (false for NaN)
SimilarEnough(sim, patchSize) == ~sim.nan /\ 10 * sim.n > 7 * SimDen(patchSize)

\* patches.sort((a, b) => b.weight - a.weight): stable, descending.
RECURSIVE InsertByWeight(_, _)
InsertByWeight(s, p) ==
  IF s = <<>> THEN <<p>>
  ELSE IF s[1].weight >= p.weight
       THEN <<s[1]>> \o InsertByWeight(Tail(s), p)
       ELSE <<p>> \o s

RECURSIVE SortByWeight(_)
SortByWeight(s) ==
  IF s = <<>> THEN <<>>
  ELSE InsertByWeight(SortByWeight(SubSeq(s, 1, Len(s) - 1)), s[Len(s)])

\* Every call of computePatchSimilarity that findSimilarPatches makes for
\* the target (x, y): the source and the value returned.
SimilarityCalls(data, width, height, x, y, patchSize, excludeRegion) ==
  LET srcs == SearchSources(width, height, x, y, patchSize \div 2, 50, excludeRegion)
  IN [i \in DOMAIN srcs |->
        [x |-> srcs[i][1], y |-> srcs[i][2],
         similarity |-> computePatchSimilarity(data, width, x, y,
                                               srcs[i][1], srcs[i][2], patchSize)]]

findSimilarPatches(data, width, height, x, y, patchSize, excludeRegion) ==
  LET calls == SimilarityCalls(data, width, height, x, y, patchSize, excludeRegion)
      kept == SelectSeq(calls, LAMBDA c : SimilarEnough(c.similarity, patchSize))
      patches == [i \in DOMAIN kept |->
                    [x |-> kept[i].x, y |-> kept[i].y, weight |-> kept[i].similarity.n]]
  IN Slice(SortByWeight(patches), 5)

blendPatches(data, width, patches) ==
  LET idx(i) == Idx(width, patches[i].x, patches[i].y)
      totalWeight == SumFrom([i \in DOMAIN patches |-> patches[i].weight], 1)
  IN [r |-> MathRound(SumFrom([i \in DOMAIN patches |->
                                 data[idx(i) + 1] * patches[i].weight], 1), totalWeight),
      g |-> MathRound(SumFrom([i \in DOMAIN patches |->
                                 data[idx(i) + 2] * patches[i].weight], 1), totalWeight),
      b |-> MathRound(SumFrom([i \in DOMAIN patches |->
                                 data[idx(i) + 3] * patches[i].weight], 1), totalWeight)]

\* The loop body of patchBasedInpaint at pixel (x, y).
patchBasedAt(data, width, height, region, x, y) ==
  LET patches == findSimilarPatches(data, width, height, x, y, 9, region)
  IN IF Len(patches) > 0
     THEN LET blended == blendPatches(data, width, patches)
          IN SetRGB(data, Idx(width, x, y), blended.r, blended.g, blended.b)
     ELSE data

patchBasedPass(data, width, height, region) ==
  LET ps == RegionPixels(region, width, height, 2)
  IN ForEachPixel(LAMBDA d, x, y : patchBasedAt(d, width, height, region, x, y),
                  data, ps, 1, Len(ps))

RECURSIVE patchBasedIter(_, _, _, _, _)
patchBasedIter(data, width, height, region, iter) ==
  IF iter >= 3 THEN data
  ELSE patchBasedIter(patchBasedPass(data, width, height, region),
                      width, height, region, iter + 1)

patchBasedInpaint(data, width, height, region) ==
  patchBasedIter(data, width, height, region, 0)

removeLogoWatermark(data, width, height, region) ==
  patchBasedInpaint(data, width, height, region)

----------------------------------------------------------------------------
(* removeWatermarks of src/lib/watermark-processor.ts                      *)

\* sampleInDirection: the sample position, when inside the buffer.
DirectionSamples(width, height, x, y, distance) ==
  SelectSeq(<< <<x + distance, y>>, <<x, y + distance>>,
               <<x + distance, y + distance>>, <<x - distance, y + distance>> >>,
            LAMBDA p : ~(p[1] < 0 \/ p[1] >= width \/ p[2] < 0 \/ p[2] >= height))

\* The region loops of the second revision:
\* for dy in 0..regionHeight-1, dx in 0..regionWidth-1, skipping
\* currentX >= width and currentY >= height.
RegionPixelsTf(region, width, height) ==
  SelectSeq([i \in 1..(region.width * region.height) |->
               <<region.x + ((i - 1) % region.width),
                 region.y + ((i - 1) \div region.width)>>],
            LAMBDA p : ~(p[1] >= width \/ p[2] >= height))

\* The loop body of removeTextWatermark at pixel (x, y).
removeTextAtTf(data, width, height, x, y) ==
  LET samples == DirectionSamples(width, height, x, y, 5)
  IN IF Len(samples) > 0
     THEN LET avgColor == averageColors([j \in DOMAIN samples |->
                ColorAt(data, Idx(width, samples[j][1], samples[j][2]))])
          IN SetRGB(data, Idx(width, x, y), avgColor.r, avgColor.g, avgColor.b)
     ELSE data

removeTextWatermarkTf(data, width, height, region) ==
  LET ps == RegionPixelsTf(region, width, height)
  IN ForEachPixel(LAMBDA d, x, y : removeTextAtTf(d, width, height, x, y),
                  data, ps, 1, Len(ps))

\* Math.round(cos(angle) * 8), Math.round(sin(angle) * 8) for angle = 0,
\* PI/8, ..., 15 PI/8 (the loop of getContextualReplacement, radius 8).
RingOffsets ==
  << <<8, 0>>, <<7, 3>>, <<6, 6>>, <<3, 7>>, <<0, 8>>, <<-3, 7>>, <<-6, 6>>,
     <<-7, 3>>, <<-8, 0>>, <<-7, -3>>, <<-6, -6>>, <<-3, -7>>, <<0, -8>>,
     <<3, -7>>, <<6, -6>>, <<7, -3>> >>

\* r + g + b, three times the brightness.
Brightness3(data, idx) == data[idx + 1] + data[idx + 2] + data[idx + 3]

getContextualReplacement(data, width, height, centerX, centerY) ==
  LET samples == SelectSeq(
        [i \in DOMAIN RingOffsets |->
           <<centerX + RingOffsets[i][1], centerY + RingOffsets[i][2]>>],
        LAMBDA p : /\ p[1] >= 0 /\ p[1] < width /\ p[2] >= 0 /\ p[2] < height
                   /\ Brightness3(data, Idx(width, p[1], p[2])) > 300
                   /\ Brightness3(data, Idx(width, p[1], p[2])) < 540)
  IN IF Len(samples) > 0
     THEN [found |-> TRUE,
           color |-> averageColors([j \in DOMAIN samples |->
                        ColorAt(data, Idx(width, samples[j][1], samples[j][2]))])]
     ELSE [found |-> FALSE]

\* The loop body of removeTransparentWatermark at pixel (x, y):
\* brightness > 180 || brightness < 80.
removeTransparentAtTf(data, width, height, x, y) ==
  LET idx == Idx(width, x, y)
      replacement ==
        IF Brightness3(data, idx) > 540 \/ Brightness3(data, idx) < 240
        THEN getContextualReplacement(data, width, height, x, y)
        ELSE [found |-> FALSE]
  IN IF replacement.found
     THEN SetRGB(data, idx, replacement.color.r, replacement.color.g,
                 replacement.color.b)
     ELSE data

removeTransparentWatermarkTf(data, width, height, region) ==
  LET ps == RegionPixelsTf(region, width, height)
  IN ForEachPixel(LAMBDA d, x, y : removeTransparentAtTf(d, width, height, x, y),
                  data, ps, 1, Len(ps))

\* getNeighborColors: the pixels within 3 of (x, y) inside the buffer, in
\* loop order, without (x, y) itself.
NeighborPositions(width, height, x, y, radius) ==
  SelectSeq([i \in 1..((2 * radius + 1) * (2 * radius + 1)) |->
               <<x + ((i - 1) % (2 * radius + 1)) - radius,
                 y + ((i - 1) \div (2 * radius + 1)) - radius>>],
            LAMBDA p : /\ ~(p[1] = x /\ p[2] = y)
                       /\ p[1] >= 0 /\ p[1] < width /\ p[2] >= 0 /\ p[2] < height)

\* Math.round(c * (1 - 0.7) + avg * 0.7)
Blend70(c, avg) == MathRound(3 * c + 7 * avg, 10)

\* The loop body of inpaintRegion at pixel (x, y).
inpaintAtTf(data, width, height, x, y) ==
  LET neighbors == NeighborPositions(width, height, x, y, 3)
      idx == Idx(width, x, y)
  IN IF Len(neighbors) > 0
     THEN LET avgColor == averageColors([j \in DOMAIN neighbors |->
                ColorAt(data, Idx(width, neighbors[j][1], neighbors[j][2]))])
          IN SetRGB(data, idx, Blend70(data[idx + 1], avgColor.r),
                    Blend70(data[idx + 2], avgColor.g),
                    Blend70(data[idx + 3], avgColor.b))
     ELSE data

inpaintPassTf(data, width, height, region) ==
  LET ps == RegionPixelsTf(region, width, height)
  IN ForEachPixel(LAMBDA d, x, y : inpaintAtTf(d, width, height, x, y),
                  data, ps, 1, Len(ps))

RECURSIVE inpaintRegionFromTf(_, _, _, _, _)
inpaintRegionFromTf(data, width, height, region, pass) ==
  IF pass >= 3 THEN data
  ELSE inpaintRegionFromTf(inpaintPassTf(data, width, height, region),
                           width, height, region, pass + 1)

inpaintRegionTf(data, width, height, region) ==
  inpaintRegionFromTf(data, width, height, region, 0)

----------------------------------------------------------------------------
(* SpecInpaint: removeWatermarks on a small buffer, one region per step.   *)

\* The side of the test buffers: one more than the 9 x 9 patch of
\* findSimilarPatches, so that a patch search has sources.
BufferSide == 10

MaxInpaintList == 2

\* A smooth test image whose alpha byte differs from pixel to pixel.
GradientImage ==
  [width |-> BufferSide, height |-> BufferSide,
   data |-> Uint8ClampedArray([i \in 1..(4 * BufferSide * BufferSide) |->
      LET p == (i - 1) \div 4
          x == p % BufferSide
          y == p \div BufferSide
      IN CASE (i - 1) % 4 = 0 -> (20 * x + 5 * y) % 256
           [] (i - 1) % 4 = 1 -> (10 * y + 3 * x) % 256
           [] (i - 1) % 4 = 2 -> 128
           [] OTHER -> 255 - x - 2 * y])]

\* A corner region, a region reaching over the right edge, and an inner
\* region overlapping the latter.
CornerRectangle == <<0, 0, 3, 3>>

EdgeRectangle == <<BufferSide - 3, BufferSide - 4, 4, 3>>

InnerRectangle == <<BufferSide - 4, BufferSide - 6, 3, 3>>

TestRegion(r, t) == Region(r[1], r[2], r[3], r[4], Conf(80), t)

TestRegions ==
  {TestRegion(EdgeRectangle, t) : t \in {"text", "pattern"}}
    \cup {TestRegion(InnerRectangle, t) : t \in {"text", "logo"}}
    \cup {TestRegion(CornerRectangle, t) : t \in {"transparent", "pattern"}}
    \cup {TestRegion(EdgeRectangle, "transparent")}

RegionLists(n) == UNION {[1..m -> TestRegions] : m \in 1..n}

\* In SpecInpaint ret is the list of the calls the switch of removeWatermarks
\* has made: for each region handled, its type and the function called.

InitInpaint ==
  /\ pc \in {"removing", "removingTf"}
  /\ k = 1
  /\ regions \in RegionLists(MaxInpaintList)
  /\ filtered = <<>>
  /\ groups = <<>>
  /\ merged = <<>>
  /\ out = <<>>
  /\ ret = <<>>
  /\ imageData = GradientImage
  /\ canvas = imageData
  /\ NoPipeline

RemoveText ==
  /\ pc = "removing"
  /\ k <= Len(regions)
  /\ regions[k].type = "text"
  /\ imageData' = [imageData EXCEPT !.data =
       removeTextWatermark(imageData.data, imageData.width, imageData.height, regions[k])]
  /\ k' = k + 1
  /\ ret' = Append(ret, [type |-> regions[k].type, strategy |-> "removeTextWatermark"])
  /\ UNCHANGED <<pc, regions, filtered, groups, merged, out, canvas, pipeline>>

RemoveTransparent ==
  /\ pc = "removing"
  /\ k <= Len(regions)
  /\ regions[k].type = "transparent"
  /\ imageData' = [imageData EXCEPT !.data =
       removeTransparentWatermark(imageData.data, imageData.width, imageData.height, regions[k])]
  /\ k' = k + 1
  /\ ret' = Append(ret, [type |-> regions[k].type, strategy |-> "removeTransparentWatermark"])
  /\ UNCHANGED <<pc, regions, filtered, groups, merged, out, canvas, pipeline>>

RemovePattern ==
  /\ pc = "removing"
  /\ k <= Len(regions)
  /\ regions[k].type = "pattern"
  /\ imageData' = [imageData EXCEPT !.data =
       removePatternWatermark(imageData.data, imageData.width, imageData.height, regions[k])]
  /\ k' = k + 1
  /\ ret' = Append(ret, [type |-> regions[k].type, strategy |-> "removePatternWatermark"])
  /\ UNCHANGED <<pc, regions, filtered, groups, merged, out, canvas, pipeline>>

RemoveLogo ==
  /\ pc = "removing"
  /\ k <= Len(regions)
  /\ regions[k].type = "logo"
  /\ imageData' = [imageData EXCEPT !.data =
       removeLogoWatermark(imageData.data, imageData.width, imageData.height, regions[k])]
  /\ k' = k + 1
  /\ ret' = Append(ret, [type |-> regions[k].type, strategy |-> "removeLogoWatermark"])
  /\ UNCHANGED <<pc, regions, filtered, groups, merged, out, canvas, pipeline>>

RemoveTextTf ==
  /\ pc = "removingTf"
  /\ k <= Len(regions)
  /\ regions[k].type = "text"
  /\ imageData' = [imageData EXCEPT !.data =
       removeTextWatermarkTf(imageData.data, imageData.width, imageData.height, regions[k])]
  /\ k' = k + 1
  /\ ret' = Append(ret, [type |-> regions[k].type, strategy |-> "removeTextWatermark"])
  /\ UNCHANGED <<pc, regions, filtered, groups, merged, out, canvas, pipeline>>

RemoveTransparentTf ==
  /\ pc = "removingTf"
  /\ k <= Len(regions)
  /\ regions[k].type = "transparent"
  /\ imageData' = [imageData EXCEPT !.data =
       removeTransparentWatermarkTf(imageData.data, imageData.width, imageData.height, regions[k])]
  /\ k' = k + 1
  /\ ret' = Append(ret, [type |-> regions[k].type, strategy |-> "removeTransparentWatermark"])
  /\ UNCHANGED <<pc, regions, filtered, groups, merged, out, canvas, pipeline>>

\* default: inpaintRegion
InpaintRegionTf ==
  /\ pc = "removingTf"
  /\ k <= Len(regions)
  /\ regions[k].type \in {"pattern", "logo"}
  /\ imageData' = [imageData EXCEPT !.data =
       inpaintRegionTf(imageData.data, imageData.width, imageData.height, regions[k])]
  /\ k' = k + 1
  /\ ret' = Append(ret, [type |-> regions[k].type, strategy |-> "inpaintRegion"])
  /\ UNCHANGED <<pc, regions, filtered, groups, merged, out, canvas, pipeline>>

\* ctx.putImageData(imageData, 0, 0) after the last region.
PutImageData ==
  /\ pc \in {"removing", "removingTf"}
  /\ k > Len(regions)
  /\ canvas' = imageData
  /\ pc' = "removed"
  /\ UNCHANGED <<k, regions, filtered, groups, merged, out, ret, imageData, pipeline>>

NextInpaint ==
  \/ RemoveText \/ RemoveTransparent \/ RemovePattern \/ RemoveLogo
  \/ RemoveTextTf \/ RemoveTransparentTf \/ InpaintRegionTf
  \/ PutImageData

SpecInpaint == InitInpaint /\ [][NextInpaint]_vars

AlphaBytes(data) == [p \in 1..(Len(data) \div 4) |-> data[4 * p]]

\* C4: removeWatermarks leaves the alpha byte of every pixel equal to its
\* value before inpainting (the canvas still holds the buffer as it was
\* before removeWatermarks).
C4_AlphaPreserved ==
  pc \in {"removing", "removingTf"} =>
    AlphaBytes(imageData.data) = AlphaBytes(canvas.data)

\* C4 witness: two overlapping regions, one of them at the buffer edge, have
\* been inpainted and colour bytes have changed.
C4_Witness ==
  /\ pc = "removing"
  /\ Len(regions) = 2
  /\ k > 2
  /\ regionsOverlap(regions[1], regions[2])
  /\ regions[1] # regions[2]
  /\ regions[1].type # regions[2].type
  /\ imageData.data # canvas.data

----------------------------------------------------------------------------
(* SpecPatch: findSimilarPatches for one target pixel of a logo region.    *)

LogoSide == 3

\* A logo region of LogoSide x LogoSide anywhere in the test buffer.
LogoRegions ==
  {TestRegion(<<x, y, LogoSide, LogoSide>>, "logo") :
     x \in 0..(BufferSide - LogoSide), y \in 0..(BufferSide - LogoSide)}

WideWidth == 64

\* A white image with a black band over the columns 9..48: seen from a
\* target in column 0, the white pixels behind the band are further away
\* than either search radius.
WideImage ==
  [width |-> WideWidth, height |-> BufferSide,
   data |-> Uint8ClampedArray([i \in 1..(4 * WideWidth * BufferSide) |->
      LET x == ((i - 1) \div 4) % WideWidth
      IN IF (i - 1) % 4 = 3 THEN 255
         ELSE IF x >= 9 /\ x <= 48 THEN 0
         ELSE 255])]

\* The buffer and the region of one call: a logo region anywhere in the
\* test buffer, a text region in its corner or inside it, and a logo or
\* text region at the left edge of the wide image.
PatchInputs ==
  {[image |-> GradientImage, region |-> r] :
     r \in LogoRegions \cup {TestRegion(CornerRectangle, "text"),
                             TestRegion(InnerRectangle, "text")}}
    \cup {[image |-> WideImage, region |-> TestRegion(<<0, 5, 2, 2>>, t)] :
            t \in {"logo", "text"}}

\* canvas keeps the buffer as it was before the step.
InitPatch ==
  /\ pc = "patching"
  /\ k = 1
  /\ \E i \in PatchInputs :
       /\ regions = <<i.region>>
       /\ imageData = i.image
  /\ filtered = <<>>
  /\ groups = <<>>
  /\ merged = <<>>
  /\ out = <<>>
  /\ ret = [x |-> 0, y |-> 0, calls |-> <<>>, patches |-> <<>>]
  /\ canvas = imageData
  /\ NoPipeline

\* One step of the loop of patchBasedInpaint: the target (x, y) is a pixel
\* the loop visits (step 2 from the corner of the region); ret keeps the
\* calls of computePatchSimilarity and the patches that are blended.
FindSimilarPatches ==
  /\ pc = "patching"
  /\ regions[1].type = "logo"
  /\ \E p \in Range(RegionPixels(regions[1], imageData.width, imageData.height, 2)) :
       /\ ret' = [x |-> p[1], y |-> p[2],
                  calls |-> SimilarityCalls(imageData.data, imageData.width,
                                            imageData.height, p[1], p[2], 9, regions[1]),
                  patches |-> findSimilarPatches(imageData.data, imageData.width,
                                                 imageData.height, p[1], p[2], 9,
                                                 regions[1]),
                  excludeRegion |-> regions[1], searchRadius |-> 50]
       /\ imageData' = [imageData EXCEPT !.data =
            patchBasedAt(imageData.data, imageData.width, imageData.height,
                         regions[1], p[1], p[2])]
  /\ pc' = "similar"
  /\ UNCHANGED <<k, regions, filtered, groups, merged, out, canvas, pipeline>>

\* One step of the loop of contentAwareInpaint, called by
\* removeTextWatermark with the expanded region: the target (x, y) is a
\* pixel the loop visits; ret keeps the patch findBestPatch returned.
FindBestPatch ==
  /\ pc = "patching"
  /\ regions[1].type = "text"
  /\ LET region == ExpandedRegion(imageData.width, imageData.height, regions[1])
     IN \E p \in Range(RegionPixels(region, imageData.width, imageData.height, 1)) :
          LET bestPatch == findBestPatch(imageData.data, imageData.width,
                                         imageData.height, p[1], p[2], 7, 30, region)
          IN /\ ret' = [x |-> p[1], y |-> p[2], calls |-> <<>>,
                        patches |-> IF bestPatch.found
                                    THEN <<[x |-> bestPatch.x, y |-> bestPatch.y,
                                            weight |-> 0]>>
                                    ELSE <<>>,
                        excludeRegion |-> region, searchRadius |-> 30]
             /\ imageData' = [imageData EXCEPT !.data =
                  contentAwareInpaintAt(imageData.data, imageData.width,
                                        imageData.height, region, p[1], p[2])]
  /\ pc' = "best"
  /\ UNCHANGED <<k, regions, filtered, groups, merged, out, canvas, pipeline>>

\* computePatchSimilarity called with the same centre twice: the patch of a
\* pixel the loop visits compared with itself.
CompareWithItself ==
  /\ pc = "patching"
  /\ regions[1].type = "logo"
  /\ \E p \in Range(RegionPixels(regions[1], imageData.width, imageData.height, 2)) :
       ret' = [x |-> p[1], y |-> p[2],
               calls |-> <<[x |-> p[1], y |-> p[2],
                            similarity |-> computePatchSimilarity(imageData.data,
                                             imageData.width, p[1], p[2], p[1], p[2], 9)]>>,
               patches |-> <<>>]
  /\ pc' = "same"
  /\ UNCHANGED <<k, regions, filtered, groups, merged, out, imageData, canvas, pipeline>>

NextPatch == FindSimilarPatches \/ FindBestPatch \/ CompareWithItself

SpecPatch == InitPatch /\ [][NextPatch]_vars

\* C5: every value computePatchSimilarity returns to findSimilarPatches is a
\* number between 0 and 1, also for a target less than half a patch from the
\* border of the image, and it is exactly 1 when both centres are the same
\* pixel.
C5_SimilarityInUnitInterval ==
  pc \in {"similar", "same"} =>
    \A i \in DOMAIN ret.calls :
      /\ ~ret.calls[i].similarity.nan
      /\ ret.calls[i].similarity.n >= 0
      /\ ret.calls[i].similarity.n <= SimDen(9)
      /\ (ret.calls[i].x = ret.x /\ ret.calls[i].y = ret.y)
           => ret.calls[i].similarity.n = SimDen(9)

----------------------------------------------------------------------------
(* The detectors of src/unnamed/part_000.  A brightness (r + g + b) / 3 is *)
(* kept as the integer r + g + b, and every threshold on it is scaled by   *)
(* three; a confidence is kept in hundredths, rounded up, so that a        *)
(* comparison with a threshold given in hundredths is the exact one.       *)

CeilDiv(a, b) == (a + b - 1) \div b

\* t * n > m and t * n < m for n > 0 and m >= 0, without forming t * n.
ProductGT(t, n, m) == t > m \div n

ProductLT(t, n, m) == t < m \div n \/ (t = m \div n /\ m % n > 0)

\* data[idx] + data[idx + 1] + data[idx + 2]
Gray3(data, idx) == data[idx + 1] + data[idx + 2] + data[idx + 3]

\* The corners (x, y) of the windows a detector scans, in loop order:
\* for (y = 0; y < height - blockSize; y += stride)
\*   for (x = 0; x < width - blockSize; x += stride)
ScanWindows(width, height, blockSize, stride) ==
  LET ys == LoopValues(0, height - blockSize, stride)
      xs == LoopValues(0, width - blockSize, stride)
  IN [i \in 1..(Len(ys) * Len(xs)) |->
        <<xs[((i - 1) % Len(xs)) + 1], ys[((i - 1) \div Len(xs)) + 1]>>]

\* The brightnesses of the size x size block at (x, y), rows first.
extractBlock(data, width, x, y, size) ==
  [i \in 1..(size * size) |->
     Gray3(data, Idx(width, x + ((i - 1) % size), y + ((i - 1) \div size)))]

\* With c the integer part of the mean of block: the rest of the mean times
\* the length, and the sum of the squared distances to c.  The variance v
\* of block / 3 then satisfies 9 v N^2 = N * SquaresAbout - MeanRest^2.
MeanFloor(block) == SumFrom(block, 1) \div Len(block)

MeanRest(block) == SumFrom(block, 1) % Len(block)

SquaresAbout(block) ==
  LET c == MeanFloor(block)
  IN SumFrom([i \in DOMAIN block |-> (block[i] - c) * (block[i] - c)], 1)

\* variance > v and variance < v for the brightnesses block / 3.
VarianceGT(block, v) ==
  ProductGT(SquaresAbout(block) - 9 * v * Len(block), Len(block),
            MeanRest(block) * MeanRest(block))

VarianceLT(block, v) ==
  ProductLT(SquaresAbout(block) - 9 * v * Len(block), Len(block),
            MeanRest(block) * MeanRest(block))

Abs(a) == IF a < 0 THEN -a ELSE a

analyzeBlockFrequency(block) ==
  IF VarianceGT(block, 100) /\ VarianceLT(block, 2000)
  THEN LET gradientScore ==
             Cardinality({i \in 2..Len(block) :
                            /\ Abs(block[i] - block[i - 1]) > 15
                            /\ Abs(block[i] - block[i - 1]) < 150})
       IN Conf(Min2(CeilDiv(100 * gradientScore, Len(block)), 100))
  ELSE Conf(0)

\* The regions of one scanning detector: the windows whose score is above
\* the threshold, in loop order.
ScanRegions(wins, Score(_, _), threshold, blockSize, type) ==
  LET scored == [i \in DOMAIN wins |->
                   Region(wins[i][1], wins[i][2], blockSize, blockSize,
                          Score(wins[i][1], wins[i][2]), type)]
  IN SelectSeq(scored, LAMBDA r : ConfGT(r.confidence, Conf(threshold)))

detectByFrequencyAnalysis(data, width, height) ==
  ScanRegions(ScanWindows(width, height, 64, 32),
              LAMBDA x, y : analyzeBlockFrequency(extractBlock(data, width, x, y, 64)),
              40, 64, "pattern")

analyzeTextContrast(data, width, x, y, size) ==
  LET g(dx, dy) == Gray3(data, Idx(width, x + dx, y + dy))
      inner == 1..(size - 2)
      edgePixels == Cardinality({p \in inner \X inner :
                      \/ Abs(g(p[1] + 1, p[2]) - g(p[1] - 1, p[2])) > 60
                      \/ Abs(g(p[1], p[2] + 1) - g(p[1], p[2] - 1)) > 60})
      totalPixels == (size - 2) * (size - 2)
  IN IF 10 * edgePixels > totalPixels /\ 10 * edgePixels < 4 * totalPixels
     THEN Conf(CeilDiv(200 * edgePixels, totalPixels))
     ELSE Conf(0)

detectTextByContrast(data, width, height) ==
  ScanRegions(ScanWindows(width, height, 32, 16),
              LAMBDA x, y : analyzeTextContrast(data, width, x, y, 32),
              50, 32, "text")

\* The samples of getPatternHash: Math.round(gray / 32) * 32 at every
\* fourth pixel of the window; the hash joins them.
getPatternHash(data, width, x, y, size) ==
  LET n == (size + 3) \div 4
  IN [i \in 1..(n * n) |->
        MathRound(Gray3(data, Idx(width, x + 4 * ((i - 1) % n), y + 4 * ((i - 1) \div n))),
                  96) * 32]

RECURSIVE Flatten(_)
Flatten(ss) == IF ss = <<>> THEN <<>> ELSE ss[1] \o Flatten(Tail(ss))

\* detectRepeatingPatterns with groups reported from two locations on.
detectRepeatingPatterns_pairs(data, width, height) ==
  LET wins == ScanWindows(width, height, 48, 24)
      hash == [i \in DOMAIN wins |-> getPatternHash(data, width, wins[i][1], wins[i][2], 48)]
      \* The keys of the map, in insertion order: the first window of each hash.
      keys == SelectSeq([i \in DOMAIN wins |-> i],
                        LAMBDA i : \A j \in 1..(i - 1) : hash[j] # hash[i])
      locations(key) == SelectSeq([i \in DOMAIN wins |-> i],
                                  LAMBDA i : hash[i] = hash[key])
      group(key) ==
        IF Len(locations(key)) >= 2
        THEN [j \in DOMAIN locations(key) |->
                Region(wins[locations(key)[j]][1], wins[locations(key)[j]][2], 48, 48,
                       Conf(Min2(10 * Len(locations(key)), 100)), "pattern")]
        ELSE <<>>
  IN Flatten([m \in DOMAIN keys |-> group(keys[m])])

detectRepeatingPatterns(data, width, height) ==
  LET wins == ScanWindows(width, height, 48, 24)
      hash == [i \in DOMAIN wins |-> getPatternHash(data, width, wins[i][1], wins[i][2], 48)]
      \* The keys of the map, in insertion order: the first window of each hash.
      keys == SelectSeq([i \in DOMAIN wins |-> i],
                        LAMBDA i : \A j \in 1..(i - 1) : hash[j] # hash[i])
      locations(key) == SelectSeq([i \in DOMAIN wins |-> i],
                                  LAMBDA i : hash[i] = hash[key])
      group(key) ==
        IF Len(locations(key)) >= 3
        THEN [j \in DOMAIN locations(key) |->
                Region(wins[locations(key)[j]][1], wins[locations(key)[j]][2], 48, 48,
                       Conf(Min2(10 * Len(locations(key)), 100)), "pattern")]
        ELSE <<>>
  IN Flatten([m \in DOMAIN keys |-> group(keys[m])])

analyzeTransparency(data, width, x, y, size) ==
  LET samples == extractBlock(data, width, x, y, size)
      sum == SumFrom(samples, 1)
  IN IF /\ VarianceLT(samples, 900)
        /\ (sum > 540 * Len(samples) \/ sum < 240 * Len(samples))
     THEN Conf(80)
     ELSE Conf(0)

detectTransparentOverlays(data, width, height) ==
  ScanRegions(ScanWindows(width, height, 40, 20),
              LAMBDA x, y : analyzeTransparency(data, width, x, y, 40),
              40, 40, "transparent")

\* The Sobel kernels at offset (dx, dy).
SobelX(dx, dy) == dx * (IF dy = 0 THEN 2 ELSE 1)

SobelY(dx, dy) == dy * (IF dx = 0 THEN 2 ELSE 1)

\* edges[y * width + x] of applySobelFilter, as thirty times the magnitude
\* sqrt(gx^2 + gy^2), rounded down; 0 on the border.
SobelAt(data, width, height, x, y) ==
  IF x < 1 \/ x >= width - 1 \/ y < 1 \/ y >= height - 1 THEN 0
  ELSE LET offs == PatchOffsets(1)
           gx == SumFrom([i \in DOMAIN offs |->
                   Gray3(data, Idx(width, x + offs[i][1], y + offs[i][2]))
                     * SobelX(offs[i][1], offs[i][2])], 1)
           gy == SumFrom([i \in DOMAIN offs |->
                   Gray3(data, Idx(width, x + offs[i][1], y + offs[i][2]))
                     * SobelY(offs[i][1], offs[i][2])], 1)
       IN IF gx = 0 /\ gy = 0 THEN 0
          ELSE ISqrtBetween(100 * (gx * gx + gy * gy), 0, 43300)

\* The byte of an array position (from 1) after a store of one edge
\* magnitude into the pixel buffer.
applySobelFilter_inPlace(data, width, height) ==
  [data |-> Uint8ClampedArray([i \in DOMAIN data |->
              IF i > width * height THEN data[i]
              ELSE IF Defined(data, Idx(width, ((i - 1) % width) + 1,
                                        ((i - 1) \div width) + 1))
              THEN ToUint8Clamped(SobelAt(data, width, height,
                                          (i - 1) % width, (i - 1) \div width), 30)
              ELSE 0]),
   edges |-> [i \in 1..(width * height) |->
                IF Defined(data, Idx(width, ((i - 1) % width) + 1, ((i - 1) \div width) + 1))
                THEN SobelAt(data, width, height, (i - 1) % width, (i - 1) \div width)
                ELSE -1]]

\* applySobelFilter: the two arrays after the call.  The magnitudes are
\* stored into edges, a new Float32Array(width * height); data, which the
\* caller passed by reference, receives no store.  A magnitude computed
\* from a read past the end of data is NaN, kept as -1.
applySobelFilter(data, width, height) ==
  [data |-> data,
   edges |-> [i \in 1..(width * height) |->
                IF Defined(data, Idx(width, ((i - 1) % width) + 1, ((i - 1) \div width) + 1))
                THEN SobelAt(data, width, height, (i - 1) % width, (i - 1) \div width)
                ELSE -1]]

\* avgEdge / 100 over the size x size block at (x, y), not capped.
analyzeEdges_noCap(data, width, height, x, y, size) ==
  LET edgeSum == SumFrom([i \in 1..(size * size) |->
                   SobelAt(data, width, height,
                           x + ((i - 1) % size), y + ((i - 1) \div size))], 1)
  IN Conf(CeilDiv(edgeSum, 30 * size * size))

\* Math.min(avgEdge / 100, 1) over the size x size block at (x, y).
analyzeEdges(data, width, height, x, y, size) ==
  LET edgeSum == SumFrom([i \in 1..(size * size) |->
                   SobelAt(data, width, height,
                           x + ((i - 1) % size), y + ((i - 1) \div size))], 1)
  IN Conf(Min2(CeilDiv(edgeSum, 30 * size * size), 100))

detectByEdgeAnalysis(data, width, height) ==
  ScanRegions(ScanWindows(width, height, 50, 25),
              LAMBDA x, y : analyzeEdges(data, width, height, x, y, 50),
              30, 50, "logo")

\* The candidates of detectWatermarks, in the order the detectors push them.
detectCandidates(data, width, height) ==
  detectByFrequencyAnalysis(data, width, height)
    \o detectTextByContrast(data, width, height)
    \o detectRepeatingPatterns(data, width, height)
    \o detectTransparentOverlays(data, width, height)
    \o detectByEdgeAnalysis(data, width, height)

detectWatermarks(data, width, height) ==
  consolidateRegions(detectCandidates(data, width, height))

----------------------------------------------------------------------------
(* applyPostProcessing of src/unnamed/part_000                             *)

\* The position of byte i (from 1) of a buffer: its pixel and its channel.
PixelX(i, width) == ((i - 1) \div 4) % width

PixelY(i, width) == ((i - 1) \div 4) \div width

Channel(i) == (i - 1) % 4

\* kernel[(ky + 1) * 3 + (kx + 1)] of [1, 2, 1, 2, 4, 2, 1, 2, 1]
GaussWeight(kx, ky) == (2 - Abs(kx)) * (2 - Abs(ky))

Interior(x, y, width, height) == x >= 1 /\ x < width - 1 /\ y >= 1 /\ y < height - 1

\* output of applySelectiveSmoothing: the 3 x 3 weighted mean of the colour
\* bytes of the interior pixels, a copy of data elsewhere.
SmoothedByte(data, width, height, i) ==
  IF Channel(i) = 3 \/ ~Interior(PixelX(i, width), PixelY(i, width), width, height)
  THEN data[i]
  ELSE LET offs == PatchOffsets(1)
       IN MathRound(SumFrom([j \in DOMAIN offs |->
                       data[i + 4 * (offs[j][2] * width + offs[j][1])]
                         * GaussWeight(offs[j][1], offs[j][2])], 1), 16)

\* data[i] = Math.round(data[i] * (1 - 0.3) + output[i] * 0.3)
applySelectiveSmoothing(data, width, height) ==
  Uint8ClampedArray([i \in DOMAIN data |->
     IF Channel(i) = 3 THEN data[i]
     ELSE MathRound(7 * data[i] + 3 * SmoothedByte(data, width, height, i), 10)])

\* data[i] = min(255, max(0, (data[i] - 128) * 1.05 + 128 + 0))
adjustContrastBrightness(data) ==
  Uint8ClampedArray([i \in DOMAIN data |->
     IF Channel(i) = 3 THEN data[i]
     ELSE ToUint8Clamped(105 * (data[i] - 128) + 12800, 100)])

\* sorted[Math.floor(9 / 2)] of nine values.
Median(values) ==
  CHOOSE v \in Range(values) :
    /\ Cardinality({j \in DOMAIN values : values[j] < v}) <= Len(values) \div 2
    /\ Cardinality({j \in DOMAIN values : values[j] <= v}) > Len(values) \div 2

\* One colour byte of the loop body of reduceNoise: the median of the
\* neighbourhood when it is more than 30 away.
DenoisedByte(data, width, i) ==
  LET offs == PatchOffsets(1)
      median == Median([j \in DOMAIN offs |->
                          data[i + 4 * (offs[j][2] * width + offs[j][1])]])
  IN IF Abs(data[i] - median) > 30 THEN median ELSE data[i]

\* The loop body of reduceNoise at pixel (x, y): the buffer is changed in
\* place, so a later pixel sees the medians stored before it.
reduceNoiseAt(data, width, x, y) ==
  SetRGB(data, Idx(width, x, y),
         DenoisedByte(data, width, Idx(width, x, y) + 1),
         DenoisedByte(data, width, Idx(width, x, y) + 2),
         DenoisedByte(data, width, Idx(width, x, y) + 3))

reduceNoise(data, width, height) ==
  LET ps == RegionPixels([x |-> 1, y |-> 1, width |-> width - 2, height |-> height - 2],
                         width - 1, height - 1, 1)
  IN ForEachPixel(LAMBDA d, x, y : reduceNoiseAt(d, width, x, y), data, ps, 1, Len(ps))

----------------------------------------------------------------------------
(* removeWatermarks, over the whole list                                   *)

removeWatermark(data, width, height, watermark) ==
  CASE watermark.type = "text" -> removeTextWatermark(data, width, height, watermark)
    [] watermark.type = "transparent" ->
         removeTransparentWatermark(data, width, height, watermark)
    [] watermark.type = "pattern" -> removePatternWatermark(data, width, height, watermark)
    [] watermark.type = "logo" -> removeLogoWatermark(data, width, height, watermark)

RECURSIVE removeWatermarksFrom(_, _, _, _, _)
removeWatermarksFrom(data, width, height, watermarks, i) ==
  IF i > Len(watermarks) THEN data
  ELSE LET next == removeWatermark(data, width, height, watermarks[i])
       IN IF Len(next) = Len(data)
          THEN removeWatermarksFrom(next, width, height, watermarks, i + 1)
          ELSE next

removeWatermarks(data, width, height, watermarks) ==
  removeWatermarksFrom(data, width, height, watermarks, 1)

removeWatermarkTf(data, width, height, region) ==
  CASE region.type = "text" -> removeTextWatermarkTf(data, width, height, region)
    [] region.type = "transparent" ->
         removeTransparentWatermarkTf(data, width, height, region)
    [] OTHER -> inpaintRegionTf(data, width, height, region)

RECURSIVE removeWatermarksFromTf(_, _, _, _, _)
removeWatermarksFromTf(data, width, height, watermarkRegions, i) ==
  IF i > Len(watermarkRegions) THEN data
  ELSE LET next == removeWatermarkTf(data, width, height, watermarkRegions[i])
       IN IF Len(next) = Len(data)
          THEN removeWatermarksFromTf(next, width, height, watermarkRegions, i + 1)
          ELSE next

removeWatermarksTf(data, width, height, watermarkRegions) ==
  removeWatermarksFromTf(data, width, height, watermarkRegions, 1)

----------------------------------------------------------------------------
(* detectWatermarks of src/lib/watermark-processor.ts.  The text and the   *)
(* edge detector work on tensors of TensorFlow.js, which is not part of    *)
(* the repository: what they report is an input of the model.              *)

\* variance > 500 of the brightnesses of the neighbours of (x, y); a
\* neighbour below the last row is read outside the array and makes the
\* variance NaN, which is not > 500.
hasTextCharacteristics(data, width, x, y) ==
  LET offs == SelectSeq(PatchOffsets(1),
                LAMBDA o : /\ ~(o[1] = 0 /\ o[2] = 0)
                           /\ x + o[1] >= 0 /\ x + o[1] < width /\ y + o[2] >= 0)
      neighbors == [j \in DOMAIN offs |->
                      Gray3(data, Idx(width, x + offs[j][1], y + offs[j][2]))]
  IN /\ Len(offs) > 0
     /\ \A j \in DOMAIN offs : Defined(data, Idx(width, x + offs[j][1], y + offs[j][2]))
     /\ VarianceGT(neighbors, 500)

analyzeTransparencyTf(data, width, startX, startY, blockSize) ==
  LET isTextLike(x, y) ==
        /\ (Gray3(data, Idx(width, x, y)) > 600 \/ Gray3(data, Idx(width, x, y)) < 300)
        /\ (data[Idx(width, x, y) + 4] < 255 \/ hasTextCharacteristics(data, width, x, y))
      suspiciousPixels ==
        Cardinality({p \in (startX..(startX + blockSize - 1))
                             \X (startY..(startY + blockSize - 1)) :
                       isTextLike(p[1], p[2])})
  IN Conf(CeilDiv(100 * suspiciousPixels, blockSize * blockSize))

detectTransparentOverlaysTf(data, width, height) ==
  ScanRegions(ScanWindows(width, height, 32, 16),
              LAMBDA x, y : analyzeTransparencyTf(data, width, x, y, 32),
              30, 32, "transparent")

\* What a tensor based detector can report: nothing, or a region at the
\* first or at the last window it scans.
TensorOutcomes(width, height, blockSize, stride, confidence, type) ==
  LET wins == ScanWindows(width, height, blockSize, stride)
  IN {<<>>} \cup
     {<<Region(wins[i][1], wins[i][2], blockSize, blockSize, Conf(confidence), type)>> :
        i \in {j \in DOMAIN wins : j = 1 \/ j = Len(wins)}}

\* detectTextWatermarks: block 24, stride 8, a score above 0.4.
TextOutcomesTf(width, height) == TensorOutcomes(width, height, 24, 8, 60, "text")

\* detectEdgeAnomalies: block 40, stride 20, a density between 0.25 and 0.7.
EdgeOutcomesTf(width, height) == TensorOutcomes(width, height, 40, 20, 50, "pattern")

\* detectRepeatingPatterns
detectRepeatingPatternsTf == <<>>

----------------------------------------------------------------------------
(* Spec: processImage of both revisions, one step per pipeline stage.      *)

\* One more than the 40 pixel window of the transparency detectors: the
\* smallest side on which they scan a window.
OverlaySide == 41

Uniform(side, r, g, b, a) ==
  [width |-> side, height |-> side,
   data |-> Uint8ClampedArray([i \in 1..(4 * side * side) |->
      CASE Channel(i) = 0 -> r [] Channel(i) = 1 -> g [] Channel(i) = 2 -> b
        [] OTHER -> a])]

Opaque(image) ==
  [image EXCEPT !.data = Uint8ClampedArray([i \in DOMAIN image.data |->
                            IF Channel(i) = 3 THEN 255 ELSE image.data[i]])]

\* The decoded images: a small gradient, a bright and a grey flat image, an
\* image of no size; the first revision reads its canvas back between the
\* filters, which returns the bytes it wrote when every pixel is opaque.
OpaqueImages ==
  {Opaque(GradientImage), Uniform(OverlaySide, 200, 200, 200, 255),
   Uniform(OverlaySide, 128, 128, 128, 255), NoImage}

PipelineImages(rev) ==
  IF rev = "canvas" THEN OpaqueImages
  ELSE OpaqueImages \cup {GradientImage, Uniform(OverlaySide, 40, 40, 40, 128)}

\* originalImageUrl: only the ProcessingResult of the first revision has it.
OriginalUrl(rev) == IF rev = "canvas" THEN <<"blob:original">> ELSE <<>>

FailedResult_success(original, message) ==
  [success |-> TRUE, processedImageUrl |-> <<>>, originalImageUrl |-> original,
   watermarksDetected |-> <<>>, error |-> <<message>>]

FailedResult(original, message) ==
  [success |-> FALSE, processedImageUrl |-> <<>>, originalImageUrl |-> original,
   watermarksDetected |-> <<>>, error |-> <<message>>]

SuccessResult(original, processed, watermarks) ==
  [success |-> TRUE, processedImageUrl |-> <<processed>>, originalImageUrl |-> original,
   watermarksDetected |-> watermarks, error |-> <<>>]

\* The messages of the failures before the image is loaded.
SetupErrors(rev) ==
  IF rev = "canvas" THEN {"Failed to get canvas context"}
  ELSE {"Failed to initialize AI models", "Canvas context not available"}

Init ==
  /\ pc = "start"
  /\ k = 1
  /\ regions = <<>>
  /\ filtered = <<>>
  /\ groups = <<>>
  /\ merged = <<>>
  /\ out = <<>>
  /\ ret = 0
  /\ imageData = NoImage
  /\ canvas = NoImage
  /\ revision \in {"canvas", "tf"}
  /\ decoded \in PipelineImages(revision)
  /\ result = NoResult
  /\ thrown = ""
  /\ processor = NoProcessor

\* processImage up to img.src = url.
ProcessImage ==
  /\ pc = "start"
  /\ pc' = "loading"
  /\ UNCHANGED <<k, regions, filtered, groups, merged, out, ret, imageData, canvas, pipeline>>

\* The outer catch: initialize() or getContext failed.
SetupFails ==
  /\ pc = "start"
  /\ \E message \in SetupErrors(revision) : result' = FailedResult(<<>>, message)
  /\ pc' = "done"
  /\ UNCHANGED <<k, regions, filtered, groups, merged, out, ret, imageData, canvas,
                 revision, decoded, thrown, processor>>

\* img.onerror
ImageError ==
  /\ pc = "loading"
  /\ result' = FailedResult(<<>>, "Failed to load image")
  /\ pc' = "done"
  /\ UNCHANGED <<k, regions, filtered, groups, merged, out, ret, imageData, canvas,
                 revision, decoded, thrown, processor>>

\* img.onload up to getImageData, which throws on a canvas of no size.
ImageLoad ==
  /\ pc = "loading"
  /\ canvas' = decoded
  /\ IF decoded.width = 0 \/ decoded.height = 0
     THEN /\ result' = FailedResult(OriginalUrl(revision), "IndexSizeError")
          /\ pc' = "done"
          /\ UNCHANGED imageData
     ELSE /\ imageData' = decoded
          /\ pc' = "detect"
          /\ UNCHANGED result
  /\ UNCHANGED <<k, regions, filtered, groups, merged, out, ret, revision, decoded, thrown, processor>>

Detect ==
  /\ pc = "detect"
  /\ revision = "canvas"
  /\ regions' = detectWatermarks(imageData.data, imageData.width, imageData.height)
  /\ pc' = IF Len(regions') > 0 THEN "remove" ELSE "smooth"
  /\ UNCHANGED <<k, filtered, groups, merged, out, ret, imageData, canvas, pipeline>>

DetectTf ==
  /\ pc = "detect"
  /\ revision = "tf"
  /\ \E textRegions \in TextOutcomesTf(imageData.width, imageData.height),
        edgeRegions \in EdgeOutcomesTf(imageData.width, imageData.height) :
       regions' = mergeAndFilterRegions(
                    textRegions
                      \o detectTransparentOverlaysTf(imageData.data, imageData.width,
                                                     imageData.height)
                      \o detectRepeatingPatternsTf \o edgeRegions)
  /\ pc' = IF Len(regions') > 0 THEN "remove" ELSE "encode"
  /\ UNCHANGED <<k, filtered, groups, merged, out, ret, imageData, canvas, pipeline>>

\* A detector of the second revision throws: detectWatermarks catches it
\* and returns the empty list.
DetectorThrowsTf ==
  /\ pc = "detect"
  /\ revision = "tf"
  /\ thrown' = "detect"
  /\ regions' = <<>>
  /\ pc' = "encode"
  /\ UNCHANGED <<k, filtered, groups, merged, out, ret, imageData, canvas,
                 revision, decoded, result, processor>>

\* The tensor code of detectEdgeAnomalies throws: the detector catches it
\* and reports no region, the other detectors count.
EdgeDetectorThrowsTf ==
  /\ pc = "detect"
  /\ revision = "tf"
  /\ thrown' = "detect"
  /\ \E textRegions \in TextOutcomesTf(imageData.width, imageData.height) :
       regions' = mergeAndFilterRegions(
                    textRegions
                      \o detectTransparentOverlaysTf(imageData.data, imageData.width,
                                                     imageData.height)
                      \o detectRepeatingPatternsTf)
  /\ pc' = IF Len(regions') > 0 THEN "remove" ELSE "encode"
  /\ UNCHANGED <<k, filtered, groups, merged, out, ret, imageData, canvas,
                 revision, decoded, result, processor>>

\* removeWatermarks and putImageData.
Remove ==
  /\ pc = "remove"
  /\ revision = "canvas"
  /\ imageData' = [imageData EXCEPT !.data =
       removeWatermarks(imageData.data, imageData.width, imageData.height, regions)]
  /\ canvas' = imageData'
  /\ pc' = "smooth"
  /\ UNCHANGED <<k, regions, filtered, groups, merged, out, ret, pipeline>>

RemoveTf ==
  /\ pc = "remove"
  /\ revision = "tf"
  /\ imageData' = [imageData EXCEPT !.data =
       removeWatermarksTf(imageData.data, imageData.width, imageData.height, regions)]
  /\ canvas' = imageData'
  /\ pc' = "encode"
  /\ UNCHANGED <<k, regions, filtered, groups, merged, out, ret, pipeline>>

\* applyPostProcessing: each filter reads the canvas and writes it back.
Smooth ==
  /\ pc = "smooth"
  /\ canvas' = [canvas EXCEPT !.data =
       applySelectiveSmoothing(canvas.data, canvas.width, canvas.height)]
  /\ pc' = "contrast"
  /\ UNCHANGED <<k, regions, filtered, groups, merged, out, ret, imageData, pipeline>>

\* adjustContrastBrightness as the last filter: reduceNoise is not awaited.
Contrast_thenEncode ==
  /\ pc = "contrast"
  /\ canvas' = [canvas EXCEPT !.data = adjustContrastBrightness(canvas.data)]
  /\ pc' = "encode"
  /\ UNCHANGED <<k, regions, filtered, groups, merged, out, ret, imageData, pipeline>>

Contrast ==
  /\ pc = "contrast"
  /\ canvas' = [canvas EXCEPT !.data = adjustContrastBrightness(canvas.data)]
  /\ pc' = "noise"
  /\ UNCHANGED <<k, regions, filtered, groups, merged, out, ret, imageData, pipeline>>

Noise ==
  /\ pc = "noise"
  /\ canvas' = [canvas EXCEPT !.data = reduceNoise(canvas.data, canvas.width, canvas.height)]
  /\ pc' = "encode"
  /\ UNCHANGED <<k, regions, filtered, groups, merged, out, ret, imageData, pipeline>>

\* canvas.toDataURL and resolve: the encoder is handed the canvas.
Encode ==
  /\ pc = "encode"
  /\ result' = SuccessResult(OriginalUrl(revision), canvas, regions)
  /\ pc' = "done"
  /\ UNCHANGED <<k, regions, filtered, groups, merged, out, ret, imageData, canvas,
                 revision, decoded, thrown, processor>>

\* A stage throws inside onload with no catch around it: the async handler
\* rejects its own promise, resolve is never called and the promise of
\* processImage stays pending.
StageThrows_uncaught ==
  /\ pc \in {"detect", "remove", "smooth", "contrast", "noise", "encode"}
  /\ ~(pc = "detect" /\ revision = "tf")
  /\ thrown' = pc
  /\ pc' = "done"
  /\ UNCHANGED <<k, regions, filtered, groups, merged, out, ret, imageData, canvas,
                 revision, decoded, result, processor>>

\* A stage throws inside the try of onload and the catch resolves.  (A
\* detector of the second revision does not get here: DetectorThrowsTf.)
StageThrows ==
  /\ pc \in {"detect", "remove", "smooth", "contrast", "noise", "encode"}
  /\ ~(pc = "detect" /\ revision = "tf")
  /\ thrown' = pc
  /\ result' = FailedResult(OriginalUrl(revision), "Processing failed")
  /\ pc' = "done"
  /\ UNCHANGED <<k, regions, filtered, groups, merged, out, ret, imageData, canvas,
                 revision, decoded, processor>>

Next ==
  \/ ProcessImage \/ SetupFails \/ ImageError \/ ImageLoad
  \/ Detect \/ DetectTf \/ DetectorThrowsTf \/ EdgeDetectorThrowsTf
  \/ Remove \/ RemoveTf \/ Smooth \/ Contrast \/ Noise \/ Encode \/ StageThrows

Spec == Init /\ [][Next]_vars

\* C6: when a pipeline stage threw while processImage was running, the
\* result has success = false and carries an error message.
C6_StageFailureFails ==
  (pc = "done" /\ thrown # "") => (~result.success /\ result.error # <<>>)

\* C7: every ProcessingResult is consistent: a failed one has an error, no
\* regions and no processed image; a successful one has a processed image
\* and no error.
C7_ResultConsistent ==
  pc = "done" =>
    /\ ~result.success =>
         /\ result.error # <<>>
         /\ result.watermarksDetected = <<>>
         /\ result.processedImageUrl = <<>>
    /\ result.success =>
         /\ result.processedImageUrl # <<>>
         /\ result.error = <<>>

\* C7 witness: a filter threw after inpainting had changed the canvas, and
\* the failed result carries none of it.
C7_Witness ==
  /\ pc = "done"
  /\ ~result.success
  /\ thrown \in {"smooth", "contrast", "noise"}
  /\ Len(regions) > 0
  /\ canvas.data # decoded.data

\* C8: when detection yields no region, processImage succeeds with an empty
\* region list, and the buffer handed to the encoder is the decoded one.
C8_NoRegionsNoChange ==
  (pc = "done" /\ thrown = "" /\ imageData # NoImage /\ regions = <<>>) =>
    /\ result.success
    /\ result.watermarksDetected = <<>>
    /\ result.processedImageUrl = <<decoded>>

----------------------------------------------------------------------------
(* SpecDetect: detectWatermarks of src/unnamed/part_000, one step per      *)
(* detector, on flat images and on buffers that are not well formed.       *)

PlainSide == 100

\* The colours of the flat images.
PlainColours == {<<r, g, b>> : r \in {0, 128, 255}, g \in {0, 255}, b \in {0, 255}}

PlainImages == {Uniform(PlainSide, c[1], c[2], c[3], 255) : c \in PlainColours}

\* Buffers whose byte array is a pixel short or a pixel long, and buffers
\* of no size.
MalformedImages ==
  {[width |-> BufferSide, height |-> BufferSide,
    data |-> SubSeq(GradientImage.data, 1, 4 * BufferSide * BufferSide - 4)],
   [width |-> BufferSide, height |-> BufferSide,
    data |-> GradientImage.data \o <<0, 0, 0, 255>>],
   [width |-> 0, height |-> BufferSide, data |-> <<>>],
   NoImage}

TexturedSide == 66

\* A grey image of vertical lines: the columns x with x % period = 0 have
\* the brightness line, the others the brightness base.
Stripes(side, period, base, line) ==
  [width |-> side, height |-> side,
   data |-> Uint8ClampedArray([i \in 1..(4 * side * side) |->
      IF Channel(i) = 3 THEN 255
      ELSE IF PixelX(i, side) % period = 0 THEN line ELSE base])]

\* Fine stripes, which the frequency detector reports, and sparse bright
\* lines, which the text and the edge detectors report.
TexturedImages ==
  {Stripes(TexturedSide, 2, 100, 130), Stripes(TexturedSide, 6, 100, 220)}

TiledWidth == 145

TiledHeight == 49

\* Three identical 48 x 48 tiles of vertical bands side by side, at the
\* window corners (0, 0), (48, 0) and (96, 0), on a white background.
TiledImage ==
  [width |-> TiledWidth, height |-> TiledHeight,
   data |-> Uint8ClampedArray([i \in 1..(4 * TiledWidth * TiledHeight) |->
      IF Channel(i) = 3 THEN 255
      ELSE IF PixelX(i, TiledWidth) < 144 /\ PixelY(i, TiledWidth) < 48
           THEN 40 * ((PixelX(i, TiledWidth) % 48) \div 8)
           ELSE 255])]

DottedWidth == 121

DottedHeight == 97

\* A white image with a black pixel in every 4 x 4 cell, off the pixels
\* getPatternHash samples: its twelve pattern windows have one hash.
DottedImage ==
  [width |-> DottedWidth, height |-> DottedHeight,
   data |-> Uint8ClampedArray([i \in 1..(4 * DottedWidth * DottedHeight) |->
      IF Channel(i) = 3 THEN 255
      ELSE IF PixelX(i, DottedWidth) % 4 = 1 /\ PixelY(i, DottedWidth) % 4 = 1
           THEN 0
           ELSE 255])]

WellFormed(image) ==
  /\ image.width > 0
  /\ image.height > 0
  /\ Len(image.data) = 4 * image.width * image.height

InitDetect ==
  /\ pc = "frequency"
  /\ k = 1
  /\ regions = <<>>
  /\ filtered = <<>>
  /\ groups = <<>>
  /\ merged = <<>>
  /\ out = <<>>
  /\ ret = 0
  /\ imageData \in PlainImages \cup TexturedImages \cup MalformedImages
                     \cup {GradientImage, TiledImage, DottedImage}
  /\ canvas = NoImage
  /\ NoPipeline

DetectByFrequency ==
  /\ pc = "frequency"
  /\ regions' = regions \o detectByFrequencyAnalysis(imageData.data, imageData.width,
                                                     imageData.height)
  /\ pc' = "text"
  /\ UNCHANGED <<k, filtered, groups, merged, out, ret, imageData, canvas, pipeline>>

DetectText ==
  /\ pc = "text"
  /\ regions' = regions \o detectTextByContrast(imageData.data, imageData.width,
                                                imageData.height)
  /\ pc' = "patterns"
  /\ UNCHANGED <<k, filtered, groups, merged, out, ret, imageData, canvas, pipeline>>

DetectPatterns ==
  /\ pc = "patterns"
  /\ regions' = regions \o detectRepeatingPatterns(imageData.data, imageData.width,
                                                   imageData.height)
  /\ pc' = "transparent"
  /\ UNCHANGED <<k, filtered, groups, merged, out, ret, imageData, canvas, pipeline>>

DetectTransparent ==
  /\ pc = "transparent"
  /\ regions' = regions \o detectTransparentOverlays(imageData.data, imageData.width,
                                                     imageData.height)
  /\ pc' = "edges"
  /\ UNCHANGED <<k, filtered, groups, merged, out, ret, imageData, canvas, pipeline>>

DetectEdges ==
  /\ pc = "edges"
  /\ regions' = regions \o detectByEdgeAnalysis(imageData.data, imageData.width,
                                                imageData.height)
  /\ imageData' = [imageData EXCEPT !.data =
                     applySobelFilter(imageData.data, imageData.width,
                                      imageData.height).data]
  /\ pc' = "consolidate"
  /\ UNCHANGED <<k, filtered, groups, merged, out, ret, canvas, pipeline>>

ConsolidateDetected ==
  /\ pc = "consolidate"
  /\ out' = consolidateRegions(regions)
  /\ pc' = "detected"
  /\ UNCHANGED <<k, regions, filtered, groups, merged, ret, imageData, canvas, pipeline>>

NextDetect ==
  \/ DetectByFrequency \/ DetectText \/ DetectPatterns \/ DetectTransparent
  \/ DetectEdges \/ ConsolidateDetected

SpecDetect == InitDetect /\ [][NextDetect]_vars

\* Every pixel of the image has the colour of the first one.
IsPlain(image) ==
  \A i \in DOMAIN image.data : image.data[i] = image.data[Channel(i) + 1]

\* C9: on a 100 x 100 buffer in which every pixel has the same colour,
\* detectWatermarks returns the empty list.
C9_PlainImageNoRegions ==
  (/\ pc = "detected"
   /\ imageData.width = PlainSide
   /\ imageData.height = PlainSide
   /\ IsPlain(imageData)) => out = <<>>

C11_DetectionReadsOnly == [][imageData' = imageData]_vars

\* C11 witness: detection ran to its end on a well-formed buffer and
\* reported regions.
C11_Witness ==
  /\ pc = "detected"
  /\ out # <<>>
  /\ regions # <<>>
  /\ WellFormed(imageData)

----------------------------------------------------------------------------
(* SpecConcurrent: processImage calls that overlap on one processor        *)
(* instance (src/unnamed/part_000).  A call is the synchronous part of     *)
(* processImage, up to img.src = url; its image arrives later in a task of *)
(* its own, onload or onerror.  Every await of the onload handler waits    *)
(* for an async function that never leaves the microtask queue, so the     *)
(* handler runs to its resolve before any other task starts: task is the   *)
(* call whose handler is running, 0 when none is.                          *)

NumCalls == 2

\* The decoded images of the files handed to the calls.
ConcurrentFiles == {Opaque(GradientImage), Uniform(BufferSide, 200, 100, 50, 255)}

\* A call not made yet; used is the set of canvases the call has drawn on
\* or read, each canvas named by the call that created it.
NoCall == [pc |-> "idle", used |-> {}, watermarks |-> <<>>, result |-> NoResult]

InitConcurrent ==
  /\ pc = "calls"
  /\ k = 1
  /\ regions = <<>>
  /\ filtered = <<>>
  /\ groups = <<>>
  /\ merged = <<>>
  /\ out = <<>>
  /\ ret = 0
  /\ imageData = NoImage
  /\ canvas = NoImage
  /\ revision = "canvas"
  /\ decoded = NoImage
  /\ result = NoResult
  /\ thrown = ""
  /\ processor \in {[canvas |-> 0, ctx |-> 0, task |-> 0, files |-> files,
                     canvases |-> [c \in 1..NumCalls |-> NoImage],
                     calls |-> [c \in 1..NumCalls |-> NoCall]] :
                      files \in [1..NumCalls -> ConcurrentFiles]}

\* processImage(file) up to the return of the promise: a new canvas and its
\* context are stored in this.canvas and this.ctx.
CallProcessImage(c) ==
  /\ processor.task = 0
  /\ processor.calls[c].pc = "idle"
  /\ processor' = [processor EXCEPT !.canvas = c, !.ctx = c, !.calls[c].pc = "loading"]
  /\ UNCHANGED <<pc, k, regions, filtered, groups, merged, out, ret, imageData, canvas,
                 revision, decoded, result, thrown>>

\* processImage(file) when getContext returns null: this.ctx is null when
\* the outer catch returns.
CallSetupFails(c) ==
  /\ processor.task = 0
  /\ processor.calls[c].pc = "idle"
  /\ processor' = [processor EXCEPT
       !.canvas = c, !.ctx = 0,
       !.calls[c].pc = "done",
       !.calls[c].result = FailedResult(<<>>, "Failed to get canvas context")]
  /\ UNCHANGED <<pc, k, regions, filtered, groups, merged, out, ret, imageData, canvas,
                 revision, decoded, result, thrown>>

\* img.onerror of call c.
OnError(c) ==
  /\ processor.task = 0
  /\ processor.calls[c].pc = "loading"
  /\ processor' = [processor EXCEPT
       !.calls[c].pc = "done",
       !.calls[c].result = FailedResult(<<>>, "Failed to load image")]
  /\ UNCHANGED <<pc, k, regions, filtered, groups, merged, out, ret, imageData, canvas,
                 revision, decoded, result, thrown>>

\* img.onload of call c up to await this.applyPostProcessing(): the handler
\* sizes this.canvas, whichever call stored it, draws its image on it,
\* detects, and puts the repaired pixels back through this.ctx.
OnLoad(c) ==
  /\ processor.task = 0
  /\ processor.calls[c].pc = "loading"
  /\ IF processor.canvas = 0 \/ processor.ctx = 0
     THEN processor' = [processor EXCEPT
            !.calls[c].pc = "done",
            !.calls[c].result = FailedResult(OriginalUrl("canvas"),
                                             "Canvas not initialized")]
     ELSE LET drawn == processor.files[c]
              watermarks == detectWatermarks(drawn.data, drawn.width, drawn.height)
          IN processor' = [processor EXCEPT
               !.task = c,
               !.canvases[processor.canvas] =
                  IF Len(watermarks) > 0
                  THEN [drawn EXCEPT !.data = removeWatermarks(drawn.data, drawn.width,
                                                               drawn.height, watermarks)]
                  ELSE drawn,
               !.calls[c].pc = "smooth",
               !.calls[c].used = {processor.canvas},
               !.calls[c].watermarks = watermarks]
  /\ UNCHANGED <<pc, k, regions, filtered, groups, merged, out, ret, imageData, canvas,
                 revision, decoded, result, thrown>>

\* applySelectiveSmoothing within the handler of call c, on this.ctx.
PostSmooth(c) ==
  /\ processor.calls[c].pc = "smooth"
  /\ LET bitmap == processor.canvases[processor.canvas]
     IN processor' = [processor EXCEPT
          !.canvases[processor.canvas] =
             [bitmap EXCEPT !.data = applySelectiveSmoothing(bitmap.data, bitmap.width,
                                                             bitmap.height)],
          !.calls[c].pc = "contrast",
          !.calls[c].used = @ \cup {processor.canvas}]
  /\ UNCHANGED <<pc, k, regions, filtered, groups, merged, out, ret, imageData, canvas,
                 revision, decoded, result, thrown>>

\* adjustContrastBrightness within the handler of call c.
PostContrast(c) ==
  /\ processor.calls[c].pc = "contrast"
  /\ LET bitmap == processor.canvases[processor.canvas]
     IN processor' = [processor EXCEPT
          !.canvases[processor.canvas] =
             [bitmap EXCEPT !.data = adjustContrastBrightness(bitmap.data)],
          !.calls[c].pc = "noise",
          !.calls[c].used = @ \cup {processor.canvas}]
  /\ UNCHANGED <<pc, k, regions, filtered, groups, merged, out, ret, imageData, canvas,
                 revision, decoded, result, thrown>>

\* reduceNoise within the handler of call c.
PostNoise(c) ==
  /\ processor.calls[c].pc = "noise"
  /\ LET bitmap == processor.canvases[processor.canvas]
     IN processor' = [processor EXCEPT
          !.canvases[processor.canvas] =
             [bitmap EXCEPT !.data = reduceNoise(bitmap.data, bitmap.width, bitmap.height)],
          !.calls[c].pc = "encode",
          !.calls[c].used = @ \cup {processor.canvas}]
  /\ UNCHANGED <<pc, k, regions, filtered, groups, merged, out, ret, imageData, canvas,
                 revision, decoded, result, thrown>>

\* this.canvas.toDataURL and resolve of call c: the handler ends.
Resolve(c) ==
  /\ processor.calls[c].pc = "encode"
  /\ processor' = [processor EXCEPT
       !.task = 0,
       !.calls[c].pc = "done",
       !.calls[c].used = @ \cup {processor.canvas},
       !.calls[c].result = SuccessResult(OriginalUrl("canvas"),
                                         processor.canvases[processor.canvas],
                                         processor.calls[c].watermarks)]
  /\ UNCHANGED <<pc, k, regions, filtered, groups, merged, out, ret, imageData, canvas,
                 revision, decoded, result, thrown>>

\* A stage of the handler of call c throws: the inner catch resolves.
HandlerThrows(c) ==
  /\ processor.calls[c].pc \in {"smooth", "contrast", "noise", "encode"}
  /\ processor' = [processor EXCEPT
       !.task = 0,
       !.calls[c].pc = "done",
       !.calls[c].result = FailedResult(OriginalUrl("canvas"), "Processing failed")]
  /\ UNCHANGED <<pc, k, regions, filtered, groups, merged, out, ret, imageData, canvas,
                 revision, decoded, result, thrown>>

NextConcurrent ==
  \E c \in 1..NumCalls :
    \/ CallProcessImage(c) \/ CallSetupFails(c) \/ OnError(c) \/ OnLoad(c)
    \/ PostSmooth(c) \/ PostContrast(c) \/ PostNoise(c) \/ Resolve(c)
    \/ HandlerThrows(c)

SpecConcurrent == InitConcurrent /\ [][NextConcurrent]_vars

\* What the onload handler computes from the image of one file when no
\* other call is made: the regions detected and the bitmap encoded.
processDrawn(drawn) ==
  LET watermarks == detectWatermarks(drawn.data, drawn.width, drawn.height)
      removed == IF Len(watermarks) > 0
                 THEN removeWatermarks(drawn.data, drawn.width, drawn.height, watermarks)
                 ELSE drawn.data
      smoothed == applySelectiveSmoothing(removed, drawn.width, drawn.height)
      denoised == reduceNoise(adjustContrastBrightness(smoothed), drawn.width, drawn.height)
  IN [watermarks |-> watermarks, processed |-> [drawn EXCEPT !.data = denoised]]

\* C12: when processImage calls overlap on one processor, each call draws on
\* and reads only the canvas it created itself, a successful call returns
\* the image and the regions computed from its own file, and no call fails
\* because of the canvas or context another call left in the processor.
C12_CallsIsolated ==
  \A c \in DOMAIN processor.calls :
    LET call == processor.calls[c]
    IN /\ call.used \subseteq {c}
       /\ call.result.error # <<"Canvas not initialized">>
       /\ (call.pc = "done" /\ call.result.success)
            => /\ call.result.processedImageUrl
                    = <<processDrawn(processor.files[c]).processed>>
               /\ call.result.watermarksDetected
                    = processDrawn(processor.files[c]).watermarks

\* C13: when consolidateRegions (src/unnamed/part_000) forms more than 10
\* merged regions, the 10 it returns are the 10 of highest confidence: no
\* merged region cut by the cap has a confidence greater than that of a
\* region returned.
C13_TopTenKept ==
  (pc = "consolidated" /\ Len(merged) > MaxWatermarks) =>
    \A i \in DOMAIN out :
      \A j \in (MaxWatermarks + 1)..Len(merged) :
        ~ConfGT(merged[j].confidence, out[i].confidence)

\* A confidence in [0, 1], kept in hundredths, and a type of the closed set.
ValidRegion(r) ==
  /\ r.confidence.n >= 0
  /\ r.confidence.n <= 100 * r.confidence.d
  /\ r.type \in RegionTypes

\* The clusters consolidateRegions forms from the candidates, as lists of
\* members.
ClusterMembers(candidates) ==
  LET kept == consolidateFiltered(candidates)
      clusters == Clusters(kept, 1, {})
  IN [g \in DOMAIN clusters |-> [i \in DOMAIN clusters[g] |-> kept[clusters[g][i]]]]

StageOrder ==
  {<<"start", "loading">>, <<"loading", "detect">>, <<"detect", "remove">>,
   <<"detect", "smooth">>, <<"remove", "smooth">>, <<"smooth", "contrast">>,
   <<"contrast", "noise">>, <<"noise", "encode">>, <<"encode", "done">>}

\* C14: in a run of processImage of the first revision every step either
\* fails the run or moves to the next stage in the order detection,
\* inpainting, smoothing, contrast, noise reduction, result.  Detection is
\* over, with the consolidated list, before a pixel is written; inpainting
\* is skipped only for an empty list and rewrites the canvas once, for the
\* whole list; each filter is applied once, to the canvas its predecessor
\* left; a successful result is produced only after the last filter.
C14_StagesOrdered ==
  [][(revision = "canvas" /\ pc' # pc) =>
       \/ pc' = "done" /\ ~result'.success
       \/ /\ <<pc, pc'>> \in StageOrder
          /\ pc = "detect" =>
               /\ regions' = detectWatermarks(imageData.data, imageData.width,
                                              imageData.height)
               /\ canvas' = canvas /\ imageData' = imageData
               /\ (pc' = "smooth") = (regions' = <<>>)
          /\ pc = "remove" =>
               canvas'.data = removeWatermarks(imageData.data, imageData.width,
                                               imageData.height, regions)
          /\ pc = "smooth" =>
               canvas'.data = applySelectiveSmoothing(canvas.data, canvas.width,
                                                      canvas.height)
          /\ pc = "contrast" => canvas'.data = adjustContrastBrightness(canvas.data)
          /\ pc = "noise" =>
               canvas'.data = reduceNoise(canvas.data, canvas.width, canvas.height)
          /\ pc = "encode" =>
               /\ canvas' = canvas
               /\ result'.success
               /\ result'.processedImageUrl = <<canvas>>
  ]_vars

\* C14 witness: a run of the first revision that found regions, inpainted
\* them, went through the three filters and resolved with success.
C14_Witness ==
  /\ revision = "canvas"
  /\ pc = "done"
  /\ result.success
  /\ Len(regions) > 0
  /\ imageData # decoded
  /\ result.processedImageUrl # <<imageData>>

\* C15: every pixel coordinate read by the calls of computePatchSimilarity
\* that findSimilarPatches makes for a pixel of the inpainted region
\* satisfies 0 <= x < width and 0 <= y < height, on the target side as on
\* the source side.
C15_ReadsInsideImage ==
  pc \in {"similar", "same"} =>
    \A i \in DOMAIN ret.calls :
      \A p \in PatchReads(ret.x, ret.y, ret.calls[i].x, ret.calls[i].y, 9) :
        /\ 0 <= p[1] /\ p[1] < imageData.width
        /\ 0 <= p[2] /\ p[2] < imageData.height

\* The candidates still unclustered when the seed of cluster c is reached:
\* those behind the seed that no earlier cluster holds.
UnclusteredBehindSeed(c) ==
  {j \in DOMAIN filtered :
     /\ j > groups[c][1]
     /\ \A e \in 1..(c - 1) : j \notin Range(groups[e])}

\* C17: the seed of a cluster absorbs exactly the later unclustered
\* candidates that overlap it or that lie within the merge distance of it
\* and have its type; no other candidate joins the cluster.
C17_SeedAbsorbsOverlappingOrNearby ==
  pc \in {"consolidated", "mergedTf"} =>
    \A c \in DOMAIN groups :
      \A j \in UnclusteredBehindSeed(c) :
        (j \in Range(groups[c]))
          <=> \/ regionsOverlap(filtered[groups[c][1]], filtered[j])
              \/ regionsNearby(filtered[groups[c][1]], filtered[j])

\* The most frequent element of types, the first in types when several are
\* equally frequent.
FirstMostFrequent(types) ==
  LET count(v) == Cardinality({i \in DOMAIN types : types[i] = v})
      first == CHOOSE i \in DOMAIN types :
                 /\ \A j \in DOMAIN types : count(types[j]) <= count(types[i])
                 /\ \A j \in 1..(i - 1) : count(types[j]) < count(types[i])
  IN types[first]

\* C18: the type of a merged region is the most frequent type of the
\* members of its cluster, and among equally frequent types the one that
\* occurs first in the cluster.
C18_MergedTypeMostFrequent ==
  pc \in {"consolidated", "mergedTf"} =>
    \A c \in DOMAIN groups :
      Len(groups[c]) > 1 =>
        merged[c].type =
          FirstMostFrequent([m \in DOMAIN groups[c] |-> filtered[groups[c][m]].type])

\* C19: the confidence filter drops exactly the candidates whose
\* confidence is below 0.3: every candidate of confidence 0.3 or more is
\* among the filtered candidates, and no candidate below 0.3 is.
C19_FilterDropsBelowThreshold ==
  pc \in {"consolidated", "mergedTf"} =>
    \A i \in DOMAIN regions :
      ConfGE(regions[i].confidence, Conf(ConfidenceThreshold))
        <=> (\E j \in DOMAIN filtered : filtered[j] = regions[i])

\* The function of the given revision that the name strategy denotes,
\* applied to the buffer.
ApplyStrategy(position, strategy, data, width, height, region) ==
  CASE position = "removing" /\ strategy = "removeTextWatermark" ->
         removeTextWatermark(data, width, height, region)
    [] position = "removing" /\ strategy = "removeTransparentWatermark" ->
         removeTransparentWatermark(data, width, height, region)
    [] position = "removing" /\ strategy = "removePatternWatermark" ->
         removePatternWatermark(data, width, height, region)
    [] position = "removing" /\ strategy = "removeLogoWatermark" ->
         removeLogoWatermark(data, width, height, region)
    [] position = "removingTf" /\ strategy = "removeTextWatermark" ->
         removeTextWatermarkTf(data, width, height, region)
    [] position = "removingTf" /\ strategy = "removeTransparentWatermark" ->
         removeTransparentWatermarkTf(data, width, height, region)
    [] position = "removingTf" /\ strategy = "inpaintRegion" ->
         inpaintRegionTf(data, width, height, region)
    [] OTHER -> data

\* C20: each step of the loop of removeWatermarks handles the next region
\* of the list with one strategy, applied to the buffer as the earlier
\* regions left it; the strategy depends on the type of the region only,
\* and regions of different types are handled by different strategies.
C20_OneStrategyPerType ==
  [][(pc \in {"removing", "removingTf"} /\ k' = k + 1) =>
       /\ Len(ret') = k
       /\ SubSeq(ret', 1, k - 1) = ret
       /\ ret'[k].type = regions[k].type
       /\ imageData'.data = ApplyStrategy(pc, ret'[k].strategy, imageData.data,
                                          imageData.width, imageData.height, regions[k])
       /\ \A i, j \in DOMAIN ret' :
            (ret'[i].type = ret'[j].type) <=> (ret'[i].strategy = ret'[j].strategy)
  ]_vars

\* (c - 0.3 * 255) / (1 - 0.3) = (10 c - 765) / 7, clamped to [0, 255] and
\* stored as a byte.
Deblended(c) == ToUint8Clamped(10 * c - 765, 7)

PatternWindows == ScanWindows(imageData.width, imageData.height, 48, 24)

GroupSize(w) ==
  Cardinality({v \in Range(PatternWindows) :
                 getPatternHash(imageData.data, imageData.width, v[1], v[2], 48)
                   = getPatternHash(imageData.data, imageData.width, w[1], w[2], 48)})

\* C22: the step of detectRepeatingPatterns appends, for every scanned
\* window whose hash is shared by at least 3 windows, one pattern candidate
\* of 48 x 48 at the corner of the window with confidence
\* min(group size / 10, 1), and nothing else: no window of a smaller group
\* is reported.
C22_RepeatedWindowsFlagged ==
  [][(pc = "patterns" /\ WellFormed(imageData)) =>
       LET new == SubSeq(regions', Len(regions) + 1, Len(regions'))
       IN /\ SubSeq(regions', 1, Len(regions)) = regions
          /\ \A w \in Range(PatternWindows) :
               Cardinality({i \in DOMAIN new : new[i].x = w[1] /\ new[i].y = w[2]})
                 = IF GroupSize(w) >= 3 THEN 1 ELSE 0
          /\ \A i \in DOMAIN new :
               /\ <<new[i].x, new[i].y>> \in Range(PatternWindows)
               /\ new[i].width = 48 /\ new[i].height = 48
               /\ new[i].type = "pattern"
               /\ new[i].confidence
                    = Conf(Min2(10 * GroupSize(<<new[i].x, new[i].y>>), 100))
  ]_vars

\* C22 witness: on the tiled image the three tiles are reported, each at
\* its own corner with confidence 0.3, and the two windows between them, a
\* group of two, are not.
C22_Witness ==
  /\ imageData = TiledImage
  /\ pc = "transparent"
  /\ \A x \in {0, 48, 96} :
       \E i \in DOMAIN regions :
         regions[i] = Region(x, 0, 48, 48, Conf(30), "pattern")
  /\ GroupSize(<<24, 0>>) = 2
  /\ \A i \in DOMAIN regions : ~(regions[i].x = 24 /\ regions[i].y = 0
                                  /\ regions[i].type = "pattern")

\* C23: every source whose colour a step of contentAwareInpaint or of
\* patchBasedInpaint copies or blends into its target lies inside the
\* buffer, outside the region being repaired and within the search radius
\* of the target on each axis (30 for findBestPatch, 50 for
\* findSimilarPatches); the step of contentAwareInpaint copies the colour
\* of that source, and a step that found no source leaves the buffer as it
\* was.
C23_SourcesBoundedOutsideRegion ==
  pc \in {"similar", "best"} =>
    /\ \A i \in DOMAIN ret.patches :
         /\ 0 <= ret.patches[i].x /\ ret.patches[i].x < imageData.width
         /\ 0 <= ret.patches[i].y /\ ret.patches[i].y < imageData.height
         /\ ~InRegion(ret.patches[i].x, ret.patches[i].y, ret.excludeRegion)
         /\ Abs(ret.patches[i].x - ret.x) <= ret.searchRadius
         /\ Abs(ret.patches[i].y - ret.y) <= ret.searchRadius
    /\ ret.patches = <<>> => imageData = canvas
    /\ (pc = "best" /\ ret.patches # <<>>) =>
         imageData.data =
           SetRGB(canvas.data, Idx(canvas.width, ret.x, ret.y),
                  canvas.data[Idx(canvas.width, ret.patches[1].x, ret.patches[1].y) + 1],
                  canvas.data[Idx(canvas.width, ret.patches[1].x, ret.patches[1].y) + 2],
                  canvas.data[Idx(canvas.width, ret.patches[1].x, ret.patches[1].y) + 3])

\* C23 witness: on the wide image the search from a target in column 0
\* stopped at the radius: sources were found, although the buffer holds
\* eligible pixels further away than the radius.
C23_Witness ==
  /\ pc \in {"similar", "best"}
  /\ imageData.width = WideWidth
  /\ ret.x = 0
  /\ ret.patches # <<>>
  /\ imageData.width - (ret.searchRadius \div 10) > ret.x + ret.searchRadius

----------------------------------------------------------------------------
(* SpecFilter: one pass of a neighbourhood filter of applyPostProcessing   *)
(* over a small grey image; canvas keeps the buffer the pass started from. *)

FilterWidth == 4

FilterHeight == 3

\* A dark and a bright grey level, more than the noise threshold apart.
FilterLevels == {40, 200}

FilterImages ==
  {[width |-> FilterWidth, height |-> FilterHeight,
    data |-> Uint8ClampedArray([i \in 1..(4 * FilterWidth * FilterHeight) |->
               IF Channel(i) = 3 THEN 255 ELSE level[((i - 1) \div 4) + 1]])] :
     level \in [1..(FilterWidth * FilterHeight) -> FilterLevels]}

InitFilter ==
  /\ pc = "filter"
  /\ k = 1
  /\ regions = <<>>
  /\ filtered = <<>>
  /\ groups = <<>>
  /\ merged = <<>>
  /\ out = <<>>
  /\ ret = 0
  /\ imageData \in FilterImages
  /\ canvas = imageData
  /\ NoPipeline

SmoothPass ==
  /\ pc = "filter"
  /\ imageData' = [imageData EXCEPT !.data =
       applySelectiveSmoothing(imageData.data, imageData.width, imageData.height)]
  /\ pc' = "smoothed"
  /\ UNCHANGED <<k, regions, filtered, groups, merged, out, ret, canvas, pipeline>>

NoisePass ==
  /\ pc = "filter"
  /\ imageData' = [imageData EXCEPT !.data =
       reduceNoise(imageData.data, imageData.width, imageData.height)]
  /\ pc' = "denoised"
  /\ UNCHANGED <<k, regions, filtered, groups, merged, out, ret, canvas, pipeline>>

NextFilter == SmoothPass \/ NoisePass

SpecFilter == InitFilter /\ [][NextFilter]_vars

\* C24: every byte a filter pass leaves is computed from the buffer the
\* pass started from: after smoothing, the blend of the byte with the
\* 3 x 3 weighted mean of the bytes around it in that buffer; after noise
\* reduction, the byte or the median of the bytes around it in that buffer.
C24_FiltersReadSourceBuffer ==
  /\ pc = "smoothed" =>
       \A i \in DOMAIN canvas.data :
         imageData.data[i] =
           IF Channel(i) = 3 THEN canvas.data[i]
           ELSE MathRound(7 * canvas.data[i]
                            + 3 * SmoothedByte(canvas.data, canvas.width,
                                               canvas.height, i), 10)
  /\ pc = "denoised" =>
       \A i \in DOMAIN canvas.data :
         imageData.data[i] =
           IF \/ Channel(i) = 3
              \/ ~Interior(PixelX(i, canvas.width), PixelY(i, canvas.width),
                           canvas.width, canvas.height)
           THEN canvas.data[i]
           ELSE DenoisedByte(canvas.data, canvas.width, i)

\* C25: every window detectByEdgeAnalysis has flagged (the candidates of
\* type logo) has a normalised average gradient inside a band: above the
\* lower threshold 0.3 and below saturation, the score 1 that every
\* average gradient of 100 or more is cut to.
C25_EdgeScoreInBand ==
  pc \in {"consolidate", "detected"} =>
    \A i \in DOMAIN regions :
      regions[i].type = "logo" =>
        /\ ConfGT(regions[i].confidence, Conf(30))
        /\ ConfGT(Conf(100), regions[i].confidence)

\* The number of clusters that hold candidate j of the filtered list.
ClustersHolding(j) ==
  Cardinality({c \in DOMAIN groups : \E m \in DOMAIN groups[c] : groups[c][m] = j})

\* C26: after consolidation the filtered list holds exactly the input
\* regions that pass the confidence filter, every one of them is a member
\* of exactly one cluster, once, and the list before the cap has exactly
\* one region per cluster.
C26_ClustersPartition ==
  pc \in {"consolidated", "mergedTf"} =>
    /\ \A i \in DOMAIN regions :
         Cardinality({j \in DOMAIN filtered : filtered[j] = regions[i]})
           = IF ConfGT(regions[i].confidence, Conf(ConfidenceThreshold))
             THEN Cardinality({j \in DOMAIN regions : regions[j] = regions[i]})
             ELSE 0
    /\ \A j \in DOMAIN filtered : ClustersHolding(j) = 1
    /\ \A c \in DOMAIN groups :
         /\ Range(groups[c]) \subseteq DOMAIN filtered
         /\ Cardinality(Range(groups[c])) = Len(groups[c])
         /\ Len(groups[c]) >= 1
    /\ Len(merged) = Len(groups)

\* C26 witness: consolidateRegions dropped a candidate, sorted the others
\* into an order that is not the input order, and formed at least three
\* clusters, one of which has a member that is not behind its seed in the
\* input.
C26_Witness ==
  /\ pc = "consolidated"
  /\ Len(filtered) < Len(regions)
  /\ Len(groups) >= 3
  /\ \E c \in DOMAIN groups :
       /\ Len(groups[c]) >= 2
       /\ \E i, j \in DOMAIN regions :
            /\ i < j
            /\ regions[j] = filtered[groups[c][1]]
            /\ regions[i] = filtered[groups[c][2]]

\* C27: every candidate the five detectors have pushed is retained by the
\* confidence filter of consolidateRegions, so it is a member of one of the
\* clusters behind the list detectWatermarks returns.
C27_DetectorCandidatesRetained ==
  pc = "detected" =>
    \A i \in DOMAIN regions :
      \E j \in DOMAIN consolidateFiltered(regions) :
        consolidateFiltered(regions)[j] = regions[i]

\* C28: for every text region inside the buffer that removeWatermarks has
\* handled, the expanded region handed to contentAwareInpaint contains
\* every pixel of the region.
C28_ExpansionContainsRegion ==
  pc = "removing" =>
    \A i \in 1..(k - 1) :
      (/\ regions[i].type = "text"
       /\ regions[i].x >= 0 /\ regions[i].y >= 0
       /\ regions[i].x + regions[i].width <= imageData.width
       /\ regions[i].y + regions[i].height <= imageData.height) =>
        \A p \in Range(RegionPixels(regions[i], imageData.width, imageData.height, 1)) :
          InRegion(p[1], p[2],
                   ExpandedRegion(imageData.width, imageData.height, regions[i]))


(***************************************************************************)
(* SpecPage: the state of HomePage (selectedFile, isProcessing, result)    *)
(* under the handlers of FileUpload and HomePage.  Every dropped file is a *)
(* File object of its own, named by the order of the drops; ret holds the  *)
(* page state, out the handleDrop / handleFileSelect call of each file and *)
(* k the number of files dropped.                                          *)
(***************************************************************************)
MaxDrops == 3

\* selectedFile = null
NoFile == 0

\* result = null
NullResult == [file |-> NoFile, success |-> FALSE]

\* The ProcessingResult that the processImage call of a file produces, and
\* the result that the catch of handleFileSelect sets.
ProcessingResults(file) == {[file |-> file, success |-> s] : s \in BOOLEAN}

InitPage ==
  /\ pc = "page"
  /\ k = 0
  /\ regions = <<>>
  /\ filtered = <<>>
  /\ groups = <<>>
  /\ merged = <<>>
  /\ out = <<>>
  /\ ret = [selectedFile |-> NoFile, isProcessing |-> FALSE, result |-> NullResult]
  /\ imageData = NoImage
  /\ canvas = NoImage
  /\ revision = "tf"
  /\ decoded = NoImage
  /\ result = NoResult
  /\ thrown = ""
  /\ processor = NoProcessor

\* FileUpload.handleDrop up to the await of getImageDimensions; the upload
\* section is rendered while result is null.  A file that does not validate
\* returns before anything is selected.
HandleDrop ==
  /\ k < MaxDrops
  /\ ret.result = NullResult
  /\ k' = k + 1
  /\ \E valid \in BOOLEAN :
       out' = Append(out, [stage |-> IF valid THEN "dimensions" ELSE "invalid"])
  /\ UNCHANGED <<pc, regions, filtered, groups, merged, ret, imageData, canvas, pipeline>>

\* getImageDimensions settles (either way) and onFileSelect(file) runs
\* handleFileSelect up to the await of processImage.
HandleFileSelect ==
  \E file \in 1..Len(out) :
    /\ out[file].stage = "dimensions"
    /\ ret' = [selectedFile |-> file, isProcessing |-> TRUE, result |-> NullResult]
    /\ out' = [out EXCEPT ![file].stage = "processing"]
    /\ UNCHANGED <<pc, k, regions, filtered, groups, merged, imageData, canvas, pipeline>>

\* The processImage call of a file settles and handleFileSelect resumes:
\* setResult in the try or in the catch, setIsProcessing(false) in finally.
ProcessImageSettles ==
  \E file \in 1..Len(out) :
    /\ out[file].stage = "processing"
    /\ \E processingResult \in ProcessingResults(file) :
         ret' = [ret EXCEPT !.result = processingResult, !.isProcessing = FALSE]
    /\ out' = [out EXCEPT ![file].stage = "settled"]
    /\ UNCHANGED <<pc, k, regions, filtered, groups, merged, imageData, canvas, pipeline>>

\* The reset buttons of the results section, rendered while result and
\* selectedFile are both set.  (handleFileRemove assigns the same state; its
\* button needs a selected file with result null and isProcessing false,
\* which no handler produces.)
HandleReset ==
  /\ ret.result # NullResult
  /\ ret.selectedFile # NoFile
  /\ ret' = [selectedFile |-> NoFile, isProcessing |-> FALSE, result |-> NullResult]
  /\ UNCHANGED <<pc, k, regions, filtered, groups, merged, out, imageData, canvas, pipeline>>

NextPage ==
  HandleDrop \/ HandleFileSelect \/ ProcessImageSettles \/ HandleReset

SpecPage == InitPage /\ [][NextPage]_vars

\* C29: the page state tracks the selected file: a result shown next to a
\* selected file is the processing result of that file, and isProcessing is
\* true exactly while the processImage call of the selected file is
\* outstanding.
C29_PageTracksSelectedFile ==
  ret.selectedFile # NoFile =>
    /\ ret.result # NullResult => ret.result.file = ret.selectedFile
    /\ ret.isProcessing <=> out[ret.selectedFile].stage = "processing"

\* A second file was selected while the first was still being processed.
C29_Witness ==
  /\ ret.selectedFile # NoFile
  /\ \E file \in 1..Len(out) :
       file # ret.selectedFile /\ out[file].stage = "processing"


(***************************************************************************)
(* SpecLive: processImage with the scheduling it relies on.  Once img.src   *)
(* is set the browser fires onload or onerror; at every other position     *)
(* before the promise is settled the code of processImage or of onload is  *)
(* running, and running code takes its next step.                          *)
(***************************************************************************)
Running == {"start", "detect", "remove", "smooth", "contrast", "noise", "encode"}

\* The running code moves on to another position.
Runs ==
  /\ pc \in Running
  /\ pc' \in (Running \cup {"loading", "done"}) \ {pc}

SpecLive == Spec /\ WF_vars(ImageLoad \/ ImageError) /\ WF_pc(Runs)

\* C30: the promise returned by processImage is settled exactly once, with a
\* ProcessingResult and never with a rejection, for every outcome of the
\* load (onload with a successful pipeline, onload with an exception in the
\* pipeline, onerror, a failure before the load starts), and every call is
\* settled eventually.
C30_EveryCallResolvesOnce ==
  /\ [][result # NoResult => result' = result]_vars
  /\ [](pc = "done" => (result # NoResult /\ (result.success \/ result.error # <<>>)))
  /\ <>(pc = "done")

\* The call was settled from the catch of onload.
C30_Witness ==
  /\ pc = "done"
  /\ thrown \in {"remove", "noise", "encode"}
  /\ result # NoResult
  /\ ~result.success

=============================================================================
